---- MODULE Spec2Model ----
(***************************************************************************)
(* Model of the morning-report run driver                                  *)
(* (src/core/cli/run_morning_snapshot.py) with its session factory         *)
(* (src/core/stagehand_runner.py) and the connectors it calls              *)
(* (src/skills/googlenews/research.py, src/skills/vital_knowledge/*.py).   *)
(*                                                                         *)
(* One run of main() is modelled from the point where it awaits            *)
(* asyncio.gather: every coroutine of all_tasks is a process whose          *)
(* position is the await it is suspended at; the outcome of each awaited   *)
(* external call (session creation, init, connector, close) is chosen      *)
(* nondeterministically when the await resolves.                           *)
(***************************************************************************)
EXTENDS Integers, Sequences, FiniteSets, TLC

(***************************************************************************)
(* Bounds of the model.                                                    *)
(***************************************************************************)
MaxEntities == 2
MaxSetting == 1
MaxFaults == 2
MaxCalls == 3
MaxRerunCalls == 2
MaxSettingLen == 3
MaxArticles == 3
MaxStories == 2
MaxBullets == 6

(***************************************************************************)
(* Python values.  None is NULL; a str is Str(s); a pydantic object is     *)
(* Obj(cls, fields); a dict is the record of its keys.  model_dump() gives *)
(* the dict of the fields, with the objects held in a field dumped too.    *)
(***************************************************************************)
NULL == [null |-> TRUE]

Str(s) == [str |-> s]

Obj(cls, fields) == [cls |-> cls, fields |-> fields]

\* The dump of every object of a list
DumpAll(objs) == [i \in 1..Len(objs) |-> objs[i].fields]

\* The dump of an Optional[...] field
DumpOptional(o) == IF o = NULL THEN NULL ELSE o.fields

\* The classes with fields that hold objects are GoogleNewsTopStories
\* (stories: List[GoogleNewsStory], news_summary: Optional[GoogleNewsSummary])
\* and VitalKnowledgeReport (headlines: List[VitalKnowledgeHeadline],
\* summary: Optional[VitalKnowledgeSummary]); the fields of the other
\* classes are strings and lists of strings
model_dump(o) ==
    CASE o.cls = "GoogleNewsTopStories" ->
            [o.fields EXCEPT !.stories = DumpAll(@), !.news_summary = DumpOptional(@)]
      [] o.cls = "VitalKnowledgeReport" ->
            [o.fields EXCEPT !.headlines = DumpAll(@), !.summary = DumpOptional(@)]
      [] OTHER -> o.fields

\* A field declared with class cls takes an object of the class as it is
\* and a dict as the keyword arguments of the class
Coerce(cls, v) == IF "cls" \in DOMAIN v THEN v ELSE Obj(cls, v)

CoerceAll(cls, vs) == [i \in 1..Len(vs) |-> Coerce(cls, vs[i])]

CoerceOptional(cls, v) == IF v = NULL THEN NULL ELSE Coerce(cls, v)

\* cls(**dict) when the validation accepts the dict
Construct(cls, dict) ==
    CASE cls = "GoogleNewsTopStories" ->
            Obj(cls, [dict EXCEPT !.stories = CoerceAll("GoogleNewsStory", @),
                                  !.news_summary = CoerceOptional("GoogleNewsSummary", @)])
      [] cls = "VitalKnowledgeReport" ->
            Obj(cls, [dict EXCEPT !.headlines = CoerceAll("VitalKnowledgeHeadline", @),
                                  !.summary = CoerceOptional("VitalKnowledgeSummary", @)])
      [] OTHER -> Obj(cls, dict)

\* bool(v) for None, pydantic objects (always true) and dicts (true iff non-empty)
Truthy(v) == v # NULL /\ DOMAIN v # {}

Return(v) == [raised |-> FALSE, value |-> v]

Raise == [raised |-> TRUE, value |-> NULL]

\* cls(**dict) with the outcome of pydantic's validation: the object, or
\* ValidationError
Validate(cls, dict, out) == IF out = "ok" THEN Return(Construct(cls, dict)) ELSE Raise

Min(a, b) == IF a < b THEN a ELSE b

Max(a, b) == IF a > b THEN a ELSE b

(***************************************************************************)
(* Entities.  The watchlist is whatever config/watchlist.json holds; the   *)
(* code never normalises its case.                                         *)
(***************************************************************************)
Universe == <<"AAA", "bbb", "CCC", "DDD">>

Tickers == {Universe[i] : i \in 1..Len(Universe)}

\* str.upper()
Upper(t) == CASE t = "bbb" -> "BBB" [] OTHER -> t

Watchlists == {SubSeq(Universe, 1, n) : n \in 0..Min(MaxEntities, Len(Universe))}

Today == "2025-11-20"

(***************************************************************************)
(* Configuration.                                                          *)
(***************************************************************************)
\* os.getenv("MAX_CONCURRENT_BROWSERS"): NULL when unset, else Text(chars),
\* the value as the sequence of its characters
Text(chars) == [chars |-> chars]

Digits == <<"0", "1", "2", "3", "4", "5", "6", "7", "8", "9">>

IsDigit(c) == \E d \in 1..10 : Digits[d] = c

DigitOf(c) == (CHOOSE d \in 1..10 : Digits[d] = c) - 1

RECURSIVE Strip(_)
\* str.strip() for the blank
Strip(chars) ==
    IF chars = <<>> THEN chars
    ELSE IF Head(chars) = " " THEN Strip(Tail(chars))
    ELSE IF chars[Len(chars)] = " " THEN Strip(SubSeq(chars, 1, Len(chars) - 1))
    ELSE chars

RECURSIVE DigitsValue(_, _)
\* The number the digits of body stand for, after acc
DigitsValue(body, acc) ==
    IF body = <<>> THEN acc
    ELSE IF Head(body) = "_" THEN DigitsValue(Tail(body), acc)
    ELSE DigitsValue(Tail(body), 10 * acc + DigitOf(Head(body)))

\* int(text): Return(v), or Raise for ValueError.  int accepts blanks around
\* the number, one sign, and single underscores between digits.
ParseInt(chars) ==
    LET s == Strip(chars)
        signed == s # <<>> /\ Head(s) \in {"+", "-"}
        body == IF signed THEN Tail(s) ELSE s
        valid == /\ body # <<>>
                 /\ IsDigit(body[1])
                 /\ IsDigit(body[Len(body)])
                 /\ \A i \in DOMAIN body : IsDigit(body[i]) \/ body[i] = "_"
                 /\ \A i \in 1..(Len(body) - 1) : ~(body[i] = "_" /\ body[i + 1] = "_")
    IN IF ~valid THEN Raise
       ELSE Return(IF signed /\ Head(s) = "-"
                   THEN -DigitsValue(body, 0)
                   ELSE DigitsValue(body, 0))

\* The characters the values of the setting are made of
SettingChars == {" ", "+", "-", "_", "a"} \cup {Digits[d + 1] : d \in 0..MaxSetting}

RECURSIVE SeqsUpTo(_, _)
\* The sequences over S of length at most n
SeqsUpTo(S, n) ==
    IF n = 0 THEN {<<>>}
    ELSE LET shorter == SeqsUpTo(S, n - 1)
         IN shorter \cup {Append(q, c) : q \in shorter, c \in S}

RawSettings == {NULL} \cup {Text(chars) : chars \in SeqsUpTo(SettingChars, MaxSettingLen)}

\* The settings the runs of main are followed with: unset, and one slot
RunSettings == {NULL, Text(<<"1">>)}

\* _get_max_concurrent_browsers as it would be without max(1, val)
get_max_concurrent_browsers_NoFloor(raw) ==
    IF raw = NULL \/ raw.chars = <<>>
    THEN 2
    ELSE LET val == ParseInt(raw.chars)
         IN IF val.raised THEN 2 ELSE val.value

\* _get_max_concurrent_browsers
get_max_concurrent_browsers(raw) ==
    IF raw = NULL \/ raw.chars = <<>>
    THEN 2
    ELSE LET val == ParseInt(raw.chars)
         IN IF val.raised THEN 2 ELSE Max(1, val.value)

Flags == [yahoo_quote : BOOLEAN, yahoo_analysis : BOOLEAN, marketwatch : BOOLEAN,
          googlenews : BOOLEAN, vital_knowledge : BOOLEAN, macro_news : BOOLEAN]

(***************************************************************************)
(* Per-entity sources, in the order process_ticker runs them.              *)
(***************************************************************************)
SOURCES == <<"quote", "analysis", "marketwatch", "googlenews">>

SourceName == <<"YahooQuote", "YahooAI", "MarketWatch", "GoogleNews">>

NumSources == Len(SOURCES)

(***************************************************************************)
(* Connectors.  Each takes the outcome of the page operations it awaits    *)
(* as an argument and gives Return(object) or Raise.                       *)
(***************************************************************************)
\* Outcomes of one awaited external operation
Outcomes == {"ok", "raise"}

\* fetch_yahoo_quote, fetch_yahoo_ai_analysis, fetch_marketwatch_top_stories:
\* connectors of the interface  fetch(page, ticker) -> payload | raises
fetch_yahoo_quote(ticker, out) ==
    IF out = "ok"
    THEN Return(Obj("YahooQuoteSnapshot", [ticker |-> ticker]))
    ELSE Raise

fetch_yahoo_ai_analysis(ticker, out) ==
    IF out = "ok"
    THEN Return(Obj("YahooAIAnalysis",
                    [ticker |-> ticker, title |-> Str("title"),
                     summary |-> Str("summary"), bullets |-> <<Str("bullet")>>]))
    ELSE Raise

fetch_marketwatch_top_stories(ticker, out) ==
    IF out = "ok"
    THEN Return(Obj("MarketWatchTopStories", [ticker |-> ticker, stories |-> <<Str("story")>>]))
    ELSE Raise

\* Page outcomes of fetch_google_news_stories: the navigation and metadata
\* extraction (nav), one outcome per article found (arts), and the overall
\* summary extraction (sum).
GNOutcome(nav, arts, sum) == [nav |-> nav, arts |-> arts, sum |-> sum]

GNStory(i, out) ==
    Obj("GoogleNewsStory",
        [headline |-> i, summary |-> IF out = "ok" THEN Str("summary") ELSE NULL])

\* lst[:n] of a Python list; a negative n counts from the end
SlicePrefix(lst, n) ==
    SubSeq(lst, 1, IF n >= 0 THEN Min(Len(lst), n) ELSE Max(Len(lst) + n, 0))

\* fetch_google_news_stories as it would be if a failing article left no story
fetch_google_news_stories_DropsFailed(ticker, out, max_stories) ==
    LET visited == IF out.nav = "raise" THEN <<>> ELSE SlicePrefix(out.arts, max_stories)
        Worked(i) == visited[i] = "ok"
        good == SelectSeq([i \in 1..Len(visited) |-> i], Worked)
        stories == [i \in 1..Len(good) |-> GNStory(good[i], "ok")]
    IN Return(Obj("GoogleNewsTopStories",
                  [ticker |-> Upper(ticker), stories |-> stories, news_summary |-> NULL]))

\* fetch_google_news_stories(page, ticker, max_stories, max_days)
\* out.nav: the search page and its links are read, or one of these
\* operations raises; out.arts: for each article found, whether its visit
\* works or raises; out.sum: the overall extraction returns a
\* GoogleNewsSummary ("ok"), raises, or returns a value that
\* GoogleNewsTopStories rejects ("invalid")
fetch_google_news_stories(ticker, out, max_stories) ==
    LET Result(stories, overall) ==
            Return(Obj("GoogleNewsTopStories",
                       [ticker |-> Upper(ticker), stories |-> stories,
                        news_summary |-> overall]))
    IN IF out.nav = "raise"
       THEN \* outer except: no story collected yet
            Result(<<>>, NULL)
       ELSE LET visited == SlicePrefix(out.arts, max_stories)
                stories == [i \in 1..Len(visited) |-> GNStory(i, visited[i])]
                with_summary == {i \in 1..Len(visited) : stories[i].fields.summary # NULL}
            IN IF with_summary = {}
               THEN Result(stories, NULL)
               ELSE CASE out.sum = "ok" ->
                           Result(stories,
                                  Obj("GoogleNewsSummary",
                                      [overall_sentiment |-> Str("mixed")]))
                      [] out.sum = "raise" ->
                           \* inner except: overall = None
                           Result(stories, NULL)
                      [] out.sum = "invalid" ->
                           \* the constructor of the result raises; the outer
                           \* except returns the stories collected
                           Result(stories, NULL)

\* Outcomes of the Vital Knowledge connectors in a run, once the credentials
\* are read: the login raises, a step after the login raises, or everything
\* works.
VKOutcomes == {"login_raise", "step_raise", "ok"}

\* A page operation inside the try block of a Vital Knowledge connector:
\* "open_morning" and "open_close" are the navigation to a report, "morning"
\* and "close" the extraction of bullets from it, "combine" the sorting of
\* the bullets, "summary" the extraction of the summary; i is the position
\* of the ticker the operation is for, 0 if it is for none
Step(s, i) == [step |-> s, i |-> i]

NoStep == Step("none", 0)

\* What page.extract returns: nothing, or an object with a list of n bullets
NoResult == [k |-> "none", n |-> 0]

Listed(n) == [k |-> "list", n |-> n]

BulletNames == <<"b1", "b2", "b3", "b4", "b5", "b6", "b7", "b8">>

\* "r.bullets if r else []"
BulletsOf(r) == IF r.k = "none" THEN <<>> ELSE [i \in 1..r.n |-> Str(BulletNames[i])]

\* The path of page.url as its segments
ArticleUrl == <<"article", "2025", "11", "19", "report">>

ListUrl == <<"reports">>

RECURSIVE JoinBy(_, _)
\* sep.join(parts)
JoinBy(sep, parts) ==
    IF Len(parts) = 0 THEN ""
    ELSE IF Len(parts) = 1 THEN parts[1]
    ELSE parts[1] \o sep \o JoinBy(sep, Tail(parts))

\* The date of a report: '-'.join(url.split('/article/')[1].split('/')[:3])
\* when the URL has '/article/', today's date otherwise
DateOf(url) ==
    LET at == {i \in 1..Len(url) : url[i] = "article"}
    IN IF at = {} THEN Today
       ELSE LET first == CHOOSE i \in at : \A m \in at : i <= m
            IN JoinBy("-", SlicePrefix(SubSeq(url, first + 1, Len(url)), 3))

EmptyMacro ==
    Obj("MacroNewsSummary",
        [morning_date |-> NULL, morning_url |-> NULL, morning_summary |-> NULL,
         morning_bullets |-> <<>>,
         market_close_date |-> NULL, market_close_url |-> NULL,
         market_close_summary |-> NULL, market_close_bullets |-> <<>>])

\* The steps of fetch_macro_news inside its try block
MacroSteps == {Step(s, 0) : s \in {"open_morning", "morning", "open_close", "close"}}

\* The MacroNewsSummary of lines 245-254
FullMacro(out) ==
    Obj("MacroNewsSummary",
        [morning_date |-> Str(DateOf(out.morning_url)),
         morning_url |-> Str(JoinBy("/", out.morning_url)),
         morning_summary |-> IF out.morning.k = "none" THEN NULL ELSE Str("summary"),
         morning_bullets |-> SlicePrefix(BulletsOf(out.morning), 5),
         market_close_date |-> Str(DateOf(out.close_url)),
         market_close_url |-> Str(JoinBy("/", out.close_url)),
         market_close_summary |-> IF out.close.k = "none" THEN NULL ELSE Str("summary"),
         market_close_bullets |-> SlicePrefix(BulletsOf(out.close), 5)])

\* fetch_macro_news as it would be without the check of the credentials
fetch_macro_news_NoCredCheck(has_creds, out) ==
    IF out.login = "raise" THEN Raise
    ELSE IF out.fail \in MacroSteps THEN Return(EmptyMacro)
    ELSE Return(FullMacro(out))

\* fetch_macro_news as it would be if a failure of the market-close part
\* kept what the morning part had extracted
fetch_macro_news_KeepsMorning(has_creds, out) ==
    IF ~has_creds THEN Raise
    ELSE IF out.login = "raise" THEN Raise
    ELSE IF out.fail \in {Step("open_morning", 0), Step("morning", 0)} THEN Return(EmptyMacro)
    ELSE IF out.fail \in MacroSteps
    THEN Return(Obj("MacroNewsSummary",
                    [model_dump(EmptyMacro) EXCEPT
                        !.morning_date = Str(DateOf(out.morning_url)),
                        !.morning_url = Str(JoinBy("/", out.morning_url)),
                        !.morning_summary =
                            IF out.morning.k = "none" THEN NULL ELSE Str("summary"),
                        !.morning_bullets = SlicePrefix(BulletsOf(out.morning), 5)]))
    ELSE Return(FullMacro(out))

\* fetch_macro_news(page)
\* out.login: the login works or raises; out.fail: the step inside the try
\* block that raises, NoStep if none; out.morning_url, out.close_url: page.url
\* on the two reports; out.morning, out.close: what page.extract returns
fetch_macro_news(has_creds, out) ==
    IF ~has_creds THEN Raise
    ELSE IF out.login = "raise" THEN Raise
    ELSE IF out.fail \in MacroSteps THEN Return(EmptyMacro)
    ELSE Return(FullMacro(out))

\* The page outcomes of fetch_macro_news in a run
MacroScenario(o) ==
    [login |-> IF o = "login_raise" THEN "raise" ELSE "ok",
     fail |-> IF o = "step_raise" THEN Step("open_morning", 0) ELSE NoStep,
     morning_url |-> ListUrl, close_url |-> ListUrl,
     morning |-> Listed(1), close |-> Listed(1)]

VKReport(ticker, headlines, dates, summary) ==
    Obj("VitalKnowledgeReport",
        [ticker |-> ticker, headlines |-> headlines, report_dates |-> dates,
         summary |-> summary])

\* "headlines = [VitalKnowledgeHeadline(headline=bullet, ...) for bullet in final_bullets]"
Headlines(final_bullets) ==
    [i \in 1..Len(final_bullets) |->
             Obj("VitalKnowledgeHeadline",
                 [headline |-> final_bullets[i], context |-> NULL, sentiment |-> NULL])]

\* FinalBullets as it would be if the sorted bullets were taken as returned
FinalBullets_NoCap(all_bullets, combined) ==
    IF all_bullets = <<>> THEN <<>> ELSE BulletsOf(combined)

\* "combined_result.top_bullets[:5] if combined_result else []", asked for
\* only when there are bullets to combine
FinalBullets(all_bullets, combined) ==
    IF all_bullets = <<>> THEN <<>> ELSE SlicePrefix(BulletsOf(combined), 5)

\* The summary is asked for only when there are final bullets
SummaryOf(final_bullets) ==
    IF final_bullets = <<>> THEN NULL
    ELSE Obj("VitalKnowledgeSummary", [summary |-> Str("summary")])

\* fetch_vital_knowledge_headlines_batch as it would be if the reports built
\* before a failure of the processing loop were kept
fetch_vital_knowledge_headlines_batch_KeepsBuilt(tickers, has_creds, out) ==
    IF ~has_creds THEN Raise
    ELSE IF out.login = "raise" THEN Raise
    ELSE LET n == Len(tickers)
             Last(t) == CHOOSE i \in 1..n :
                            tickers[i] = t /\ \A j \in (i + 1)..n : tickers[j] # t
             Count(t) == Cardinality({i \in 1..n : tickers[i] = t})
             dates(t) == [j \in 1..(2 * Count(t)) |->
                                  IF j <= Count(t) THEN Str(DateOf(out.morning_url))
                                                   ELSE Str(DateOf(out.close_url))]
             all_bullets(i) == BulletsOf(out.morning[Last(tickers[i])]) \o
                               BulletsOf(out.close[Last(tickers[i])])
             final_bullets(i) == FinalBullets(all_bullets(i), out.combine[i])
             Executed(s) ==
                 CASE s.step \in {"open_morning", "open_close"} -> s.i = 0
                   [] s.step \in {"morning", "close"} -> s.i \in 1..n
                   [] s.step = "combine" -> s.i \in 1..n /\ all_bullets(s.i) # <<>>
                   [] s.step = "summary" -> s.i \in 1..n /\ final_bullets(s.i) # <<>>
                   [] OTHER -> FALSE
             Built(i) == ~Executed(out.fail) \/
                         (out.fail.step \in {"combine", "summary"} /\ i < out.fail.i)
         IN Return([i \in 1..n |->
                            IF Built(i)
                            THEN VKReport(Upper(tickers[i]), Headlines(final_bullets(i)),
                                          dates(tickers[i]), SummaryOf(final_bullets(i)))
                            ELSE VKReport(Upper(tickers[i]), <<>>, <<>>, NULL)])

\* fetch_vital_knowledge_headlines_batch(page, tickers)
\* out.login, out.fail, out.morning_url, out.close_url as for fetch_macro_news;
\* out.morning, out.close, out.combine: what page.extract returns for the
\* ticker at each position of the list
fetch_vital_knowledge_headlines_batch(tickers, has_creds, out) ==
    IF ~has_creds THEN Raise
    ELSE IF out.login = "raise" THEN Raise
    ELSE LET n == Len(tickers)
             \* ticker_data is keyed by ticker: a later occurrence of a
             \* ticker overwrites its bullets and adds to its dates
             Last(t) == CHOOSE i \in 1..n :
                            tickers[i] = t /\ \A j \in (i + 1)..n : tickers[j] # t
             Count(t) == Cardinality({i \in 1..n : tickers[i] = t})
             dates(t) == [j \in 1..(2 * Count(t)) |->
                                  IF j <= Count(t) THEN Str(DateOf(out.morning_url))
                                                   ELSE Str(DateOf(out.close_url))]
             all_bullets(i) == BulletsOf(out.morning[Last(tickers[i])]) \o
                               BulletsOf(out.close[Last(tickers[i])])
             final_bullets(i) == FinalBullets(all_bullets(i), out.combine[i])
             Executed(s) ==
                 CASE s.step \in {"open_morning", "open_close"} -> s.i = 0
                   [] s.step \in {"morning", "close"} -> s.i \in 1..n
                   [] s.step = "combine" -> s.i \in 1..n /\ all_bullets(s.i) # <<>>
                   [] s.step = "summary" -> s.i \in 1..n /\ final_bullets(s.i) # <<>>
                   [] OTHER -> FALSE
         IN IF Executed(out.fail)
            THEN Return([i \in 1..n |-> VKReport(Upper(tickers[i]), <<>>, <<>>, NULL)])
            ELSE Return([i \in 1..n |->
                                 VKReport(Upper(tickers[i]), Headlines(final_bullets(i)),
                                          dates(tickers[i]), SummaryOf(final_bullets(i)))])

\* The page outcomes of fetch_vital_knowledge_headlines_batch in a run
BatchScenario(o, tickers) ==
    [login |-> IF o = "login_raise" THEN "raise" ELSE "ok",
     fail |-> IF o = "step_raise" THEN Step("open_morning", 0) ELSE NoStep,
     morning_url |-> ListUrl, close_url |-> ListUrl,
     morning |-> [i \in 1..Len(tickers) |-> Listed(1)],
     close |-> [i \in 1..Len(tickers) |-> Listed(0)],
     combine |-> [i \in 1..Len(tickers) |-> Listed(1)]]

\* fetch_vital_knowledge_headlines(page, ticker)
\* out as for fetch_macro_news, with out.combine for the sorting step
fetch_vital_knowledge_headlines(ticker, has_creds, out) ==
    IF ~has_creds THEN Raise
    ELSE IF out.login = "raise" THEN Raise
    ELSE LET all_bullets == BulletsOf(out.morning) \o BulletsOf(out.close)
             final_bullets == FinalBullets(all_bullets, out.combine)
             Executed(s) ==
                 CASE s.step \in {"open_morning", "morning", "open_close", "close"} -> TRUE
                   [] s.step = "combine" -> all_bullets # <<>>
                   [] s.step = "summary" -> final_bullets # <<>>
                   [] OTHER -> FALSE
         IN IF Executed(out.fail)
            THEN Return(VKReport(Upper(ticker), <<>>, <<>>, NULL))
            ELSE Return(VKReport(Upper(ticker), Headlines(final_bullets),
                                 <<Str(DateOf(out.morning_url)), Str(DateOf(out.close_url))>>,
                                 SummaryOf(final_bullets)))

\* {result.ticker: result for result in results}
DictByTicker(results) ==
    [k \in {results[i].fields.ticker : i \in 1..Len(results)} |->
        LET last == CHOOSE i \in 1..Len(results) :
                        /\ results[i].fields.ticker = k
                        /\ \A j \in (i+1)..Len(results) : results[j].fields.ticker # k
        IN results[last]]

(***************************************************************************)
(* State of one run.                                                       *)
(***************************************************************************)
VARIABLES
    watchlist,                      \* main: watchlist
    setting,                        \* the environment's MAX_CONCURRENT_BROWSERS
    use,                            \* main: the use_* flags
    max_concurrent,                 \* main: max_concurrent
    has_creds,                      \* Vital_login and Vital_password are both set
    sem,                            \* value of the asyncio.Semaphore
    tasks,                          \* the coroutines of all_tasks, by position in the list
    completion,                     \* indices of the ticker tasks in the order they returned
    leaked,                         \* Stagehand objects abandoned without close()
    faults,                         \* external operations that have failed so far
    pc,                             \* position of main
    results,                        \* main: results
    macro_news_result,              \* main: macro_news_result
    vital_knowledge_batch_results,  \* main: vital_knowledge_batch_results
    log,                            \* diagnostics printed by main
    files,                          \* snapshot and report files of today
    typed_items,                    \* main: typed_items
    bad_payloads,                   \* payloads whose reconstitution raised in step 7
    prev                            \* what an earlier run of the same day did, NULL if none

vars == <<watchlist, setting, use, max_concurrent, has_creds, sem, tasks, completion, leaked, faults, pc,
          results, macro_news_result, vital_knowledge_batch_results, log, files,
          typed_items, bad_payloads, prev>>

\* What a run starts from and does not change
config == <<watchlist, setting, use, max_concurrent, has_creds, prev>>

post_join == <<results, macro_news_result, vital_knowledge_batch_results, log, files,
               typed_items, bad_payloads>>

NoTicker == ""

\* main, step 4: all_tasks = ticker tasks, then the macro task, then the batch task
all_tasks(wl, u) ==
    LET ticker_tasks == [i \in 1..Len(wl) |-> [kind |-> "ticker", ticker |-> wl[i]]]
        with_macro == IF u.macro_news
                      THEN Append(ticker_tasks, [kind |-> "macro", ticker |-> NoTicker])
                      ELSE ticker_tasks
    IN IF u.vital_knowledge
       THEN Append(with_macro, [kind |-> "batch", ticker |-> NoTicker])
       ELSE with_macro

TaskIds == DOMAIN tasks

TickerIds == {i \in TaskIds : tasks[i].kind = "ticker"}

\* The entry of hist for a wrapper call that has just started (src is 0 in
\* the macro and the batch task)
Call(k) == [src |-> k, acq |-> "pending", out |-> NULL, rel |-> "pending"]

\* StartTask as it would be if the macro and batch coroutines were gated too
StartTask_AllGated(d) ==
    [kind |-> d.kind, ticker |-> d.ticker,
     pos |-> "wait",
     src |-> 0,
     result |-> NULL,
     slots |-> [k \in 1..NumSources |-> NULL],
     error_messages |-> <<>>,
     hist |-> IF d.kind = "ticker" THEN <<>> ELSE <<Call(0)>>,
     holds |-> FALSE,
     releases |-> 0,
     ret |-> NULL]

\* A coroutine before its first step.  pos is the await it is suspended at:
\*   wait  - process_ticker at "async with sem"
\*   acquire - a session wrapper at "await create_stagehand_session()"
\*   fetch - the wrapper at "await fetch_func(...)"
\*   close - the wrapper at "await stagehand.close()"
\*   done  - the coroutine has returned ret
\*   raised - an exception has left the coroutine
\* hist is the record of the wrapper calls the task has made: the source, the
\* outcome of the session acquisition, the page outcome given to the
\* connector (NULL while there is none) and the outcome of close().
\* holds says that the coroutine is inside "async with sem"; releases counts
\* its sem.release() calls.
StartTask(d) ==
    [kind |-> d.kind, ticker |-> d.ticker,
     pos |-> IF d.kind = "ticker" THEN "wait" ELSE "acquire",
     src |-> 0,
     result |-> NULL,
     slots |-> [k \in 1..NumSources |-> NULL],
     error_messages |-> <<>>,
     hist |-> IF d.kind = "ticker" THEN <<>> ELSE <<Call(0)>>,
     holds |-> FALSE,
     releases |-> 0,
     ret |-> NULL]

FileNames == {"yahoo", "marketwatch", "googlenews", "vital_knowledge", "macro_news", "report"}

\* The session wrapper calls a run with this configuration makes
NumCalls(wl, u) ==
    Len(wl) * Cardinality({f \in {"yahoo_quote", "yahoo_analysis", "marketwatch", "googlenews"} : u[f]})
    + (IF u.macro_news THEN 1 ELSE 0) + (IF u.vital_knowledge THEN 1 ELSE 0)

Init ==
    /\ watchlist \in Watchlists
    /\ use \in Flags
    /\ NumCalls(watchlist, use) <= MaxCalls
    /\ setting \in RunSettings
    /\ max_concurrent = get_max_concurrent_browsers(setting)
    \* Only the macro and batch connectors read the credentials
    /\ has_creds \in (IF use.macro_news \/ use.vital_knowledge THEN BOOLEAN ELSE {TRUE})
    /\ sem = max_concurrent
    /\ tasks = [i \in 1..Len(all_tasks(watchlist, use)) |->
                    StartTask(all_tasks(watchlist, use)[i])]
    /\ completion = <<>>
    /\ leaked = 0
    /\ faults = 0
    /\ pc = "gather"
    /\ results = <<>>
    /\ macro_news_result = NULL
    /\ vital_knowledge_batch_results = NULL
    /\ log = {}
    /\ files = [f \in FileNames |-> NULL]
    /\ typed_items = <<>>
    /\ bad_payloads = {}
    /\ prev = NULL

(***************************************************************************)
(* process_ticker                                                          *)
(***************************************************************************)
UseSource(k) ==
    CASE k = 1 -> use.yahoo_quote
      [] k = 2 -> use.yahoo_analysis
      [] k = 3 -> use.marketwatch
      [] k = 4 -> use.googlenews

\* NextEnabled as it would be if process_ticker ignored the source flags
NextEnabled_IgnoresFlags(k) == IF k < NumSources THEN k + 1 ELSE 0

\* The next "if use_...:" block after source k whose flag is set, 0 if none
NextEnabled(k) ==
    LET later == {j \in (k+1)..NumSources : UseSource(j)}
    IN IF later = {} THEN 0 ELSE CHOOSE j \in later : \A m \in later : j <= m

RECURSIVE Join(_)
\* "; ".join(msgs)
Join(msgs) ==
    IF Len(msgs) = 0 THEN ""
    ELSE IF Len(msgs) = 1 THEN msgs[1]
    ELSE msgs[1] \o "; " \o Join(Tail(msgs))

DumpOrNone(o) == IF Truthy(o) THEN model_dump(o) ELSE NULL

\* TickerRecord as it would be if the error messages were dropped
TickerRecord_NoError(t) ==
    [ticker |-> t.ticker,
     error |-> NULL,
     quote |-> DumpOrNone(t.slots[1]),
     analysis |-> DumpOrNone(t.slots[2]),
     marketwatch |-> DumpOrNone(t.slots[3]),
     googlenews |-> DumpOrNone(t.slots[4]),
     vital_knowledge |-> NULL]

\* TickerRecord as it would be if process_ticker filled the slot with a
\* report of its own when vital-knowledge is enabled
TickerRecord_OwnReport(t) ==
    [ticker |-> t.ticker,
     error |-> IF t.error_messages # <<>> THEN Str(Join(t.error_messages)) ELSE NULL,
     quote |-> DumpOrNone(t.slots[1]),
     analysis |-> DumpOrNone(t.slots[2]),
     marketwatch |-> DumpOrNone(t.slots[3]),
     googlenews |-> DumpOrNone(t.slots[4]),
     vital_knowledge |-> IF use.vital_knowledge
                         THEN model_dump(VKReport(Upper(t.ticker), <<>>, <<>>, NULL))
                         ELSE NULL]

\* The dict process_ticker returns
TickerRecord(t) ==
    [ticker |-> t.ticker,
     error |-> IF t.error_messages # <<>> THEN Str(Join(t.error_messages)) ELSE NULL,
     quote |-> DumpOrNone(t.slots[1]),
     analysis |-> DumpOrNone(t.slots[2]),
     marketwatch |-> DumpOrNone(t.slots[3]),
     googlenews |-> DumpOrNone(t.slots[4]),
     vital_knowledge |-> NULL]

\* "return {...}" and the end of "async with sem": the coroutine does not
\* await between the return of its last wrapper call and its own return
ReturnRecord(t) ==
    [t EXCEPT !.pos = "done", !.src = 0, !.ret = TickerRecord(t),
              !.holds = FALSE, !.releases = @ + 1]

\* Advance as it would be if the semaphore covered the first source only
Advance_DropsSlot(t, k) ==
    LET n == NextEnabled(k)
    IN IF n = 0
       THEN ReturnRecord(t)
       ELSE [t EXCEPT !.pos = "acquire", !.src = n, !.hist = Append(@, Call(n)),
                      !.holds = (k = 0)]

\* process_ticker moves on from source k: into the wrapper of the next
\* enabled source, or through the return statement
Advance(t, k) ==
    LET n == NextEnabled(k)
    IN IF n = 0
       THEN ReturnRecord(t)
       ELSE [t EXCEPT !.pos = "acquire", !.src = n, !.hist = Append(@, Call(n))]

\* AfterSource as it would be if a failure replaced the earlier messages
AfterSource_Overwrites(t, v) ==
    LET k == t.src
        t1 == [t EXCEPT !.slots[k] = v,
                        !.result = NULL,
                        !.error_messages =
                            IF Truthy(v) THEN @ ELSE <<SourceName[k] \o " failed">>]
    IN Advance(t1, k)

\* AfterSource as it would be if a failed source left no message
AfterSource_NoMessage(t, v) ==
    LET k == t.src
        t1 == [t EXCEPT !.slots[k] = v, !.result = NULL]
    IN Advance(t1, k)

\* AfterSource as it would be if a failed source ended the task's fetches
AfterSource_StopOnFailure(t, v) ==
    LET k == t.src
        t1 == [t EXCEPT !.slots[k] = v,
                        !.result = NULL,
                        !.error_messages =
                            IF Truthy(v) THEN @ ELSE Append(@, SourceName[k] \o " failed")]
    IN IF Truthy(v) THEN Advance(t1, k) ELSE ReturnRecord(t1)

\* "x = await _run_source_with_session(...)" returned v for the current source
AfterSource(t, v) ==
    LET k == t.src
        t1 == [t EXCEPT !.slots[k] = v,
                        !.result = NULL,
                        !.error_messages =
                            IF Truthy(v) THEN @ ELSE Append(@, SourceName[k] \o " failed")]
    IN Advance(t1, k)

\* The step of task i takes process_ticker through its return statement
Returns(i) == tasks[i].kind = "ticker" /\ tasks[i].pos # "done" /\ tasks'[i].pos = "done"

\* LeaveGate as it would be if the end of "async with sem" released nothing
LeaveGate_NoRelease(i, taken) ==
    /\ sem' = sem - taken
    /\ completion' = IF Returns(i) THEN Append(completion, i) ELSE completion

\* The semaphore and the completion order after a step of task i that has
\* taken "taken" slots: sem.release() when the step leaves "async with sem"
LeaveGate(i, taken) ==
    /\ sem' = sem - taken + (IF Returns(i) THEN 1 ELSE 0)
    /\ completion' = IF Returns(i) THEN Append(completion, i) ELSE completion

\* EnterGate as it would be if process_ticker did not use the semaphore
EnterGate_NoSem(i) ==
    /\ tasks[i].kind = "ticker"
    /\ tasks[i].pos = "wait"
    /\ tasks' = [tasks EXCEPT ![i] = Advance(@, 0)]
    /\ completion' = IF Returns(i) THEN Append(completion, i) ELSE completion
    /\ UNCHANGED <<config, sem, leaked, faults, pc, post_join>>

\* EnterGate as it would be if a task did not wait for a free slot
EnterGate_NoWait(i) ==
    /\ tasks[i].kind = "ticker"
    /\ tasks[i].pos = "wait"
    /\ \A j \in 1..(i - 1) : tasks[j].pos # "wait"
    /\ tasks' = [tasks EXCEPT ![i] = Advance([@ EXCEPT !.holds = TRUE], 0)]
    /\ LeaveGate(i, 1)
    /\ UNCHANGED <<config, leaked, faults, pc, post_join>>

\* "async with sem": a slot is free and the task takes it.  gather starts the
\* coroutines in list order and the semaphore wakes its waiters first come
\* first served, so the tasks pass the gate in list order.
EnterGate(i) ==
    /\ tasks[i].kind = "ticker"
    /\ tasks[i].pos = "wait"
    /\ \A j \in 1..(i - 1) : tasks[j].pos # "wait"
    /\ sem > 0
    /\ tasks' = [tasks EXCEPT ![i] = Advance([@ EXCEPT !.holds = TRUE], 0)]
    /\ LeaveGate(i, 1)
    /\ UNCHANGED <<config, leaked, faults, pc, post_join>>

(***************************************************************************)
(* The session wrappers: _run_source_with_session,                         *)
(* fetch_macro_news_with_session, _run_vital_knowledge_batch               *)
(***************************************************************************)
\* The failure of an external operation counts against the fault bound
Cost(out) == IF out = "ok" THEN 0 ELSE 1

\* What the wrapper's except branch returns
FailValue(t) == IF t.kind = "batch" THEN <<>> ELSE NULL

\* The wrapper returns v to its caller
WrapperReturn(t, v) ==
    IF t.kind = "ticker"
    THEN AfterSource(t, v)
    ELSE [t EXCEPT !.pos = "done", !.ret = v, !.result = NULL]

\* WrapperExcept as it would be if the wrapper let the exception through
WrapperExcept_Reraise(t) == Raise

\* "except Exception as e: print(...); return None" (return {} in the batch
\* wrapper): how the wrapper ends when its try block raised
WrapperExcept(t) == Return(FailValue(t))

\* The wrapper ends: with an exception that leaves the coroutine (no caller
\* catches it), or with a value for its caller
WrapperExit(t, r) ==
    IF r.raised
    THEN [t EXCEPT !.pos = "raised", !.result = NULL]
    ELSE WrapperReturn(t, r.value)

\* The page outcome as hist keeps it
PageOutcome(t, out) == IF t.kind = "ticker" /\ t.src = 4 THEN out ELSE Str(out)

\* The last entry of hist gets the outcome of the acquisition / the page outcome
NoteAcquire(t, out) == [t EXCEPT !.hist[Len(t.hist)].acq = out]

NoteFetch(t, out) == [t EXCEPT !.hist[Len(t.hist)].out = out]

NoteClose(t, out) == [t EXCEPT !.hist[Len(t.hist)].rel = out]

\* Page outcomes the Google News connector is run on
GNOutcomes == {GNOutcome("raise", <<>>, "ok"), GNOutcome("ok", <<"ok", "raise">>, "ok")}

\* Without credentials the Vital Knowledge connectors raise before they
\* await any page operation
BodyOutcomes(t) ==
    IF t.kind = "ticker"
    THEN IF t.src = 4 THEN GNOutcomes ELSE Outcomes
    ELSE IF has_creds THEN VKOutcomes ELSE {"ok"}

\* A connector run counts as failed when its first page operation raises
BodyCost(t, out) ==
    IF t.kind = "ticker" /\ t.src = 4 THEN Cost(out.nav) ELSE Cost(out)

\* "await fetch_func(page, ticker, ...)" of the wrapper the task is in
Body(t, out) ==
    CASE t.kind = "ticker" /\ t.src = 1 -> fetch_yahoo_quote(t.ticker, out)
      [] t.kind = "ticker" /\ t.src = 2 -> fetch_yahoo_ai_analysis(t.ticker, out)
      [] t.kind = "ticker" /\ t.src = 3 -> fetch_marketwatch_top_stories(t.ticker, out)
      [] t.kind = "ticker" /\ t.src = 4 -> fetch_google_news_stories(t.ticker, out, 5)
      [] t.kind = "macro" -> fetch_macro_news(has_creds, MacroScenario(out))
      [] t.kind = "batch" ->
            \* "results = await fetch_vital_knowledge_headlines_batch(page, tickers)",
            \* r being what the call gave
            CHOOSE w \in {IF r.raised THEN Raise ELSE Return(DictByTicker(r.value)) :
                           r \in {fetch_vital_knowledge_headlines_batch(
                                      watchlist, has_creds, BatchScenario(out, watchlist))}} : TRUE

\* Outcomes of create_stagehand_session: it returns (stagehand, page); it
\* raises before "stagehand = Stagehand(config)"; or "await stagehand.init()"
\* raises, with the Stagehand object already constructed.
AcquireOutcomes == {"ok", "raise_config", "raise_init"}

\* The outcome of an external operation of the current wrapper call of task i
\* is the one the same operation had in the earlier run, if there was one
AsBefore(i, op, out) ==
    prev # NULL => prev.hist[i][Len(tasks[i].hist)][op] = out

\* "stagehand, page = await create_stagehand_session()".  When it raises,
\* the wrapper's own "stagehand" is still None and its finally block closes
\* nothing: a Stagehand object constructed by the call is abandoned.
AcquireSession(i) ==
    /\ tasks[i].pos = "acquire"
    /\ \E out \in AcquireOutcomes :
          /\ AsBefore(i, "acq", out)
          /\ faults + Cost(out) <= MaxFaults
          /\ faults' = faults + Cost(out)
          /\ tasks' = [tasks EXCEPT ![i] =
                          IF out = "ok"
                          THEN [NoteAcquire(@, out) EXCEPT !.pos = "fetch"]
                          ELSE WrapperExit(NoteAcquire(@, out), WrapperExcept(@))]
          /\ leaked' = IF out = "raise_init" THEN leaked + 1 ELSE leaked
    /\ LeaveGate(i, 0)
    /\ UNCHANGED <<config, pc, post_join>>

\* AfterFetch as it would be if the wrapper returned without its finally block
AfterFetch_NoFinally(t, r) ==
    WrapperExit(t, IF r.raised THEN WrapperExcept(t) ELSE Return(r.value))

\* The connector gave r: the wrapper keeps what it will return and goes on
\* to its finally block
AfterFetch(t, r) ==
    [t EXCEPT !.pos = "close",
              !.result = IF r.raised THEN WrapperExcept(t) ELSE Return(r.value)]

\* "result = await fetch_func(...)": the value the wrapper will return
Fetch(i) ==
    /\ tasks[i].pos = "fetch"
    /\ \E out \in BodyOutcomes(tasks[i]) :
          /\ AsBefore(i, "out", PageOutcome(tasks[i], out))
          /\ faults + BodyCost(tasks[i], out) <= MaxFaults
          /\ faults' = faults + BodyCost(tasks[i], out)
          /\ \E r \in {Body(tasks[i], out)} :
                tasks' = [tasks EXCEPT ![i] =
                             AfterFetch(NoteFetch(@, PageOutcome(@, out)), r)]
    /\ UNCHANGED <<config, sem, completion, leaked, pc, post_join>>

\* AfterClose as it would be if the exception of close() left the wrapper
AfterClose_Reraise(t, out) == IF out = "raise" THEN Raise ELSE t.result

\* "try: await stagehand.close() except Exception as e: print(...)": the
\* wrapper ends as its try block decided, whatever close() did
AfterClose(t, out) == t.result

\* finally: "await stagehand.close()"
CloseSession(i) ==
    /\ tasks[i].pos = "close"
    /\ \E out \in Outcomes :
          /\ AsBefore(i, "rel", out)
          /\ faults + Cost(out) <= MaxFaults
          /\ faults' = faults + Cost(out)
          /\ tasks' = [tasks EXCEPT ![i] =
                          WrapperExit(NoteClose(@, out), AfterClose(tasks[i], out))]
    /\ LeaveGate(i, 0)
    /\ UNCHANGED <<config, leaked, pc, post_join>>

(***************************************************************************)
(* main after the tasks were started                                       *)
(***************************************************************************)
\* AllDone as it would be if main went on after the first finished task
AllDone_FirstCompleted(ts) == \E i \in DOMAIN ts : ts[i].pos = "done"

\* AllDone as it would be if gather waited for the process_ticker tasks only
AllDone_TickersOnly(ts) == \A i \in DOMAIN ts : ts[i].kind = "ticker" => ts[i].pos = "done"

\* gather resolves when every awaitable has a result
AllDone(ts) == \A i \in DOMAIN ts : ts[i].pos = "done"

\* GatherResults as it would be if the ticker results came in completion order
GatherResults_AsCompleted(ts, order) ==
    [i \in DOMAIN ts |-> IF i <= Len(order) THEN ts[order[i]].ret ELSE ts[i].ret]

\* asyncio.gather(*all_tasks): the results in the order of the awaitables
GatherResults(ts, order) == [i \in DOMAIN ts |-> ts[i].ret]

\* JoinTasks as it would be if the batch result were taken before the macro result
JoinTasks_Swapped ==
    /\ pc = "gather"
    /\ IF \E i \in TaskIds : tasks[i].pos = "raised"
       THEN /\ pc' = "aborted"
            /\ UNCHANGED <<results, macro_news_result, vital_knowledge_batch_results>>
       ELSE /\ AllDone(tasks)
            /\ LET all_results == GatherResults(tasks, completion)
                   n == Len(watchlist)
               IN /\ results' = SubSeq(all_results, 1, n)
                  /\ macro_news_result' =
                        IF use.macro_news
                        THEN IF use.vital_knowledge THEN all_results[n + 2]
                                                    ELSE all_results[n + 1]
                        ELSE NULL
                  /\ vital_knowledge_batch_results' =
                        IF use.vital_knowledge THEN all_results[n + 1] ELSE NULL
            /\ pc' = "merge"
    /\ UNCHANGED <<config, sem, tasks, completion, leaked, faults, log, files, typed_items,
                   bad_payloads>>

\* "all_results = await asyncio.gather(*all_tasks)" and the separation of
\* all_results into results, macro_news_result, vital_knowledge_batch_results
\* An exception of a task leaves gather and main at once.
JoinTasks ==
    /\ pc = "gather"
    /\ IF \E i \in TaskIds : tasks[i].pos = "raised"
       THEN /\ pc' = "aborted"
            /\ UNCHANGED <<results, macro_news_result, vital_knowledge_batch_results>>
       ELSE /\ AllDone(tasks)
            /\ LET all_results == GatherResults(tasks, completion)
                   n == Len(watchlist)
               IN /\ results' = SubSeq(all_results, 1, n)
                  /\ macro_news_result' =
                        IF use.macro_news THEN all_results[n + 1] ELSE NULL
                  /\ vital_knowledge_batch_results' =
                        IF use.macro_news
                        THEN IF use.vital_knowledge THEN all_results[n + 2] ELSE NULL
                        ELSE IF use.vital_knowledge THEN all_results[n + 1] ELSE NULL
            /\ pc' = "merge"
    /\ UNCHANGED <<config, sem, tasks, completion, leaked, faults, log, files, typed_items,
                   bad_payloads>>

Warn(kind, ticker) == [kind |-> kind, ticker |-> ticker]

\* MergeItem as it would be if the merge rebuilt the record from the batch
MergeItem_Rebuilds(item, batch) ==
    IF item.ticker \in DOMAIN batch
    THEN [item EXCEPT !.vital_knowledge = model_dump(batch[item.ticker]),
                      !.error = NULL]
    ELSE item

\* One iteration of the merge loop of step 4b on a ticker record
MergeItem(item, batch) ==
    IF item.ticker \in DOMAIN batch
    THEN [item EXCEPT !.vital_knowledge = model_dump(batch[item.ticker])]
    ELSE item

\* Step 4b: merge the batch mapping into the ticker records
Merge ==
    /\ pc = "merge"
    /\ IF use.vital_knowledge /\ Truthy(vital_knowledge_batch_results)
       THEN /\ results' = [i \in DOMAIN results |->
                              MergeItem(results[i], vital_knowledge_batch_results)]
            /\ log' = log \cup
                  {Warn("no_vital_knowledge", results[i].ticker) :
                      i \in {j \in DOMAIN results :
                                results[j].ticker \notin DOMAIN vital_knowledge_batch_results}}
       ELSE UNCHANGED <<results, log>>
    /\ pc' = "snapshot"
    /\ UNCHANGED <<config, sem, tasks, completion, leaked, faults, macro_news_result,
                   vital_knowledge_batch_results, files, typed_items, bad_payloads>>

\* The per-category projections of steps 5, 6, 6b, 6c
YahooEntry(item) ==
    [ticker |-> item.ticker, error |-> item.error, quote |-> item.quote,
     analysis |-> item.analysis]

MarketWatchEntry(item) ==
    [ticker |-> item.ticker, error |-> item.error, marketwatch |-> item.marketwatch]

GoogleNewsEntry(item) ==
    [ticker |-> item.ticker, error |-> item.error, googlenews |-> item.googlenews]

VitalKnowledgeEntry(item) ==
    [ticker |-> item.ticker, error |-> item.error, vital_knowledge |-> item.vital_knowledge]

Snapshot(entries) == [as_of |-> Today, tickers |-> entries]

\* write_text as it would be if it added the entries to those the file holds
write_text_Appends(old, content) ==
    IF old # NULL /\ "tickers" \in DOMAIN content
    THEN [content EXCEPT !.tickers = old.tickers \o @]
    ELSE content

\* path.write_text(content): the file holds content, whatever it held before
write_text(old, content) == content

\* WriteSnapshots as it would be if the macro snapshot were written whether
\* or not macro news is enabled
WriteSnapshots_AlwaysMacro ==
    /\ pc = "snapshot"
    /\ files' = [f \in FileNames |->
          CASE f = "yahoo" ->
                  write_text(files[f],
                      Snapshot([i \in DOMAIN results |-> YahooEntry(results[i])]))
            [] f = "marketwatch" ->
                  write_text(files[f],
                      Snapshot([i \in DOMAIN results |-> MarketWatchEntry(results[i])]))
            [] f = "googlenews" ->
                  write_text(files[f],
                      Snapshot([i \in DOMAIN results |-> GoogleNewsEntry(results[i])]))
            [] f = "vital_knowledge" ->
                  write_text(files[f],
                      Snapshot([i \in DOMAIN results |-> VitalKnowledgeEntry(results[i])]))
            [] f = "macro_news" ->
                  write_text(files[f],
                      [as_of |-> Today, macro_news |-> DumpOrNone(macro_news_result)])
            [] OTHER -> files[f]]
    /\ pc' = "report"
    /\ UNCHANGED <<config, sem, tasks, completion, leaked, faults, results, macro_news_result,
                   vital_knowledge_batch_results, log, typed_items, bad_payloads>>

\* Steps 5 to 6d: write_text replaces the file
WriteSnapshots ==
    /\ pc = "snapshot"
    /\ files' = [f \in FileNames |->
          CASE f = "yahoo" ->
                  write_text(files[f],
                      Snapshot([i \in DOMAIN results |-> YahooEntry(results[i])]))
            [] f = "marketwatch" ->
                  write_text(files[f],
                      Snapshot([i \in DOMAIN results |-> MarketWatchEntry(results[i])]))
            [] f = "googlenews" ->
                  write_text(files[f],
                      Snapshot([i \in DOMAIN results |-> GoogleNewsEntry(results[i])]))
            [] f = "vital_knowledge" ->
                  write_text(files[f],
                      Snapshot([i \in DOMAIN results |-> VitalKnowledgeEntry(results[i])]))
            [] f = "macro_news" ->
                  IF use.macro_news
                  THEN write_text(files[f],
                          [as_of |-> Today, macro_news |-> DumpOrNone(macro_news_result)])
                  ELSE files[f]
            [] OTHER -> files[f]]
    /\ pc' = "report"
    /\ UNCHANGED <<config, sem, tasks, completion, leaked, faults, results, macro_news_result,
                   vital_knowledge_batch_results, log, typed_items, bad_payloads>>

\* HasQuote as it would be if the report kept every record
HasQuote_Always(item) == TRUE

\* "if not item.get(\"quote\"): continue"
HasQuote(item) == Truthy(item.quote)

EmptyAnalysis(ticker) ==
    Obj("YahooAIAnalysis",
        [ticker |-> ticker, title |-> NULL, summary |-> NULL, bullets |-> <<>>])

\* The payload keys of a ticker record
PayloadKeys == {"quote", "analysis", "marketwatch", "googlenews", "vital_knowledge"}

\* The constructor calls the loop of step 7 can make: <<j, f>> for payload f
\* of record j
ParseSites(rs) ==
    {s \in (DOMAIN rs) \X PayloadKeys : HasQuote(rs[s[1]]) /\ Truthy(rs[s[1]][s[2]])}

\* The site of the constructor call that rebuilds the macro summary
MacroSite == <<0, "macro">>

\* The constructor calls of quote and analysis stand outside any try block
Unguarded(bad) == {s \in bad : s[2] \in {"quote", "analysis"}}

\* "x_obj = None; if item.get(f): try: x_obj = Cls(**item[f]) except: x_obj = None"
OptionalObj(cls, dict, out) ==
    IF Truthy(dict)
    THEN LET r == Validate(cls, dict, out) IN IF r.raised THEN NULL ELSE r.value
    ELSE NULL

\* The validation outcome of payload f of a record, given the calls that fail
OutcomeOf(failed, f) == IF f \in failed THEN "raise" ELSE "ok"

\* TypedItem as it would be without the fallback analysis object
TypedItem_NoFallback(item, failed) ==
    <<Validate("YahooQuoteSnapshot", item.quote, OutcomeOf(failed, "quote")).value,
      OptionalObj("YahooAIAnalysis", item.analysis, "ok"),
      OptionalObj("MarketWatchTopStories", item.marketwatch, OutcomeOf(failed, "marketwatch")),
      OptionalObj("GoogleNewsTopStories", item.googlenews, OutcomeOf(failed, "googlenews")),
      OptionalObj("VitalKnowledgeReport", item.vital_knowledge,
                  OutcomeOf(failed, "vital_knowledge"))>>

\* The tuple (q, a, mw_obj, googlenews_obj, vital_knowledge_obj) of one record
\* whose quote and analysis were rebuilt without an exception
TypedItem(item, failed) ==
    <<Validate("YahooQuoteSnapshot", item.quote, OutcomeOf(failed, "quote")).value,
      IF Truthy(item.analysis)
      THEN Validate("YahooAIAnalysis", item.analysis, OutcomeOf(failed, "analysis")).value
      ELSE EmptyAnalysis(item.ticker),
      OptionalObj("MarketWatchTopStories", item.marketwatch, OutcomeOf(failed, "marketwatch")),
      OptionalObj("GoogleNewsTopStories", item.googlenews, OutcomeOf(failed, "googlenews")),
      OptionalObj("VitalKnowledgeReport", item.vital_knowledge,
                  OutcomeOf(failed, "vital_knowledge"))>>

\* Step 7, the loop that fills typed_items, when no unguarded call raises
BuildTypedItems(rs, bad) ==
    LET idx == SelectSeq([j \in DOMAIN rs |-> j], LAMBDA j : HasQuote(rs[j]))
    IN [i \in DOMAIN idx |->
          TypedItem(rs[idx[i]], {f \in PayloadKeys : <<idx[i], f>> \in bad})]

\* AfterLoop as it would be without "if not typed_items: return"
AfterLoop_NoReturn(items) == "write"

\* "if not typed_items: return": where main goes after the loop of step 7
AfterLoop(items) == IF items = <<>> THEN "done" ELSE "write"

\* Step 7 up to "if not typed_items: return".  bad is the set of constructor
\* calls that raise ValidationError; an unguarded one ends the loop and main.
BuildReport ==
    /\ pc = "report"
    /\ \E bad \in SUBSET ParseSites(results) :
          LET fatal == Unguarded(bad)
              stop == IF fatal = {} THEN Len(results) + 1
                      ELSE (CHOOSE s \in fatal : TRUE)[1]
              seen == {j \in DOMAIN results : j < stop}
          IN /\ prev # NULL => bad = prev.bad \ {MacroSite}
             \* the loop makes no call after one that ended it
             /\ \A s \in fatal : \A s2 \in bad \ {s} : s2[1] < s[1]
             /\ faults + Cardinality(bad) <= MaxFaults
             /\ faults' = faults + Cardinality(bad)
             /\ bad_payloads' = bad
             /\ log' = log
                   \cup {Warn("skip_no_quote", results[j].ticker) :
                            j \in {k \in seen : ~HasQuote(results[k])}}
                   \cup {Warn("empty_analysis", results[j].ticker) :
                            j \in {k \in seen : HasQuote(results[k])
                                                  /\ ~Truthy(results[k].analysis)}}
                   \cup {Warn("parse_" \o s[2], results[s[1]].ticker) : s \in bad \ fatal}
                   \cup (IF fatal = {} /\ BuildTypedItems(results, bad) = <<>>
                         THEN {Warn("no_tickers", NoTicker)} ELSE {})
             /\ IF fatal # {}
                THEN \* the items appended before the call that raised
                     /\ typed_items' = BuildTypedItems(SubSeq(results, 1, stop - 1), bad)
                     /\ pc' = "report_aborted"
                ELSE /\ typed_items' = BuildTypedItems(results, bad)
                     /\ pc' = AfterLoop(BuildTypedItems(results, bad))
    /\ UNCHANGED <<config, sem, tasks, completion, leaked, results, macro_news_result,
                   vital_knowledge_batch_results, files>>

\* build_morning_report(today, typed_items, macro_news_obj)
build_morning_report(today, items, macro) ==
    [date |-> today, items |-> items, macro |-> macro]

\* The end of step 7: the macro object and the report file
WriteReport ==
    /\ pc = "write"
    /\ \E out \in Outcomes :
          LET parses == use.macro_news /\ Truthy(macro_news_result)
              macro_news_obj ==
                 IF parses
                 THEN LET r == Validate("MacroNewsSummary", model_dump(macro_news_result), out)
                      IN IF r.raised THEN NULL ELSE r.value
                 ELSE NULL
              failed == parses /\ out = "raise"
          IN /\ ~parses => out = "ok"
             /\ prev # NULL => (failed <=> MacroSite \in prev.bad)
             /\ faults + Cost(out) <= MaxFaults
             /\ faults' = faults + Cost(out)
             /\ bad_payloads' = IF failed THEN bad_payloads \cup {MacroSite} ELSE bad_payloads
             /\ log' = IF failed THEN log \cup {Warn("parse_macro", NoTicker)} ELSE log
             /\ files' = [files EXCEPT
                            !["report"] =
                                write_text(@, build_morning_report(Today, typed_items,
                                                                   macro_news_obj))]
    /\ pc' = "done"
    /\ UNCHANGED <<config, sem, tasks, completion, leaked, results, macro_news_result,
                   vital_knowledge_batch_results, typed_items>>

Next ==
    \/ \E i \in TaskIds : EnterGate(i)
    \/ \E i \in TaskIds : AcquireSession(i)
    \/ \E i \in TaskIds : Fetch(i)
    \/ \E i \in TaskIds : CloseSession(i)
    \/ JoinTasks
    \/ Merge
    \/ WriteSnapshots
    \/ BuildReport
    \/ WriteReport

Spec == Init /\ [][Next]_vars

\* main has returned or ended with an exception
RunEnded == pc \in {"done", "aborted", "report_aborted"}

\* The program is started again on the same day with the same watchlist and
\* settings, and every external operation does what it did in the first run
Rerun ==
    /\ RunEnded
    /\ prev = NULL
    /\ prev' = [hist |-> [i \in TaskIds |-> tasks[i].hist], bad |-> bad_payloads,
                files |-> files]
    /\ sem' = max_concurrent
    /\ tasks' = [i \in 1..Len(all_tasks(watchlist, use)) |->
                    StartTask(all_tasks(watchlist, use)[i])]
    /\ completion' = <<>>
    /\ leaked' = 0
    /\ faults' = 0
    /\ pc' = "gather"
    /\ results' = <<>>
    /\ macro_news_result' = NULL
    /\ vital_knowledge_batch_results' = NULL
    /\ log' = {}
    /\ typed_items' = <<>>
    /\ bad_payloads' = {}
    /\ UNCHANGED <<watchlist, setting, use, max_concurrent, has_creds, files>>

RerunNext == Next \/ Rerun

\* main before step 3, with an empty watchlist and every source off
SettingInit ==
    /\ watchlist = <<>>
    /\ setting \in RawSettings
    /\ use = [yahoo_quote |-> FALSE, yahoo_analysis |-> FALSE, marketwatch |-> FALSE,
              googlenews |-> FALSE, vital_knowledge |-> FALSE, macro_news |-> FALSE]
    /\ max_concurrent = 0
    /\ has_creds = TRUE
    /\ sem = 0
    /\ tasks = <<>>
    /\ completion = <<>>
    /\ leaked = 0
    /\ faults = 0
    /\ pc = "start"
    /\ results = <<>>
    /\ macro_news_result = NULL
    /\ vital_knowledge_batch_results = NULL
    /\ log = {}
    /\ files = [f \in FileNames |-> NULL]
    /\ typed_items = <<>>
    /\ bad_payloads = {}
    /\ prev = NULL

\* Step 3: "max_concurrent = _get_max_concurrent_browsers()" and
\* "sem = asyncio.Semaphore(max_concurrent)"
ReadSetting ==
    /\ pc = "start"
    /\ max_concurrent' = get_max_concurrent_browsers(setting)
    /\ sem' = max_concurrent'
    /\ pc' = "gather"
    /\ UNCHANGED <<watchlist, setting, use, has_creds, prev, tasks, completion, leaked, faults,
                   post_join>>

SettingSpec == SettingInit /\ [][ReadSetting]_vars

(***************************************************************************)
(* The connectors on their own: one call of a connector with a page whose  *)
(* operations have the given outcomes.                                     *)
(***************************************************************************)
ConnectorCall(func, args) ==
    [kind |-> "connector", func |-> func, args |-> args, pos |-> "called", ret |-> NULL]

GoogleNewsOutcomes ==
    {GNOutcome("raise", <<>>, "ok")} \cup
    {GNOutcome("ok", arts, sum) : arts \in SeqsUpTo({"ok", "raise"}, MaxArticles),
                                  sum \in {"ok", "raise", "invalid"}}

GoogleNewsCalls ==
    {ConnectorCall("fetch_google_news_stories",
                   [ticker |-> t, out |-> out, max_stories |-> m]) :
        t \in {"bbb"}, out \in GoogleNewsOutcomes, m \in 0..MaxStories}

\* What page.url is on the two reports
UrlPairs == {<<ArticleUrl, ArticleUrl>>, <<ListUrl, ArticleUrl>>, <<ListUrl, ListUrl>>}

\* What page.extract returns for a list of bullets
ExtractResults == {NoResult} \cup {Listed(b) : b \in 0..MaxBullets}

\* The page outcomes of a Vital Knowledge connector
VKOutcome(login, fail, urls, morning, close, combine) ==
    [login |-> login, fail |-> fail, morning_url |-> urls[1], close_url |-> urls[2],
     morning |-> morning, close |-> close, combine |-> combine]

\* The steps of the batch connector for a list of n tickers
BatchSteps(n) ==
    {Step("open_morning", 0), Step("open_close", 0)} \cup
    {Step(s, i) : s \in {"morning", "close", "combine", "summary"}, i \in 1..n}

\* The steps of fetch_vital_knowledge_headlines inside its try block
SingleSteps ==
    {Step(s, 0) : s \in {"open_morning", "morning", "open_close", "close", "combine",
                         "summary"}}

\* The lists of tickers the batch connector is called with
BatchTickers == Watchlists \cup {<<"AAA", "AAA">>}

\* A call of the batch connector: the login raises, or the steps after it
\* have any outcome (the sorting step returns the same for every ticker)
BatchCallInit ==
    \E ts \in BatchTickers :
        LET n == Len(ts)
            Called(out) ==
                tasks = <<ConnectorCall("fetch_vital_knowledge_headlines_batch",
                                        [tickers |-> ts, out |-> out])>>
        IN \/ Called(VKOutcome("raise", NoStep, <<ListUrl, ListUrl>>,
                               [i \in 1..n |-> NoResult], [i \in 1..n |-> NoResult],
                               [i \in 1..n |-> NoResult]))
           \/ \E f \in {NoStep} \cup BatchSteps(n), u \in UrlPairs \ {<<ListUrl, ListUrl>>},
                 m \in [1..n -> {NoResult, Listed(0), Listed(1)}],
                 c \in [1..n -> {Listed(0), Listed(1)}],
                 k \in ExtractResults :
                 Called(VKOutcome("ok", f, u, m, c, [i \in 1..n |-> k]))

\* A call of fetch_macro_news
MacroCallInit ==
    LET Called(out) == tasks = <<ConnectorCall("fetch_macro_news", [out |-> out])>>
    IN \/ Called(VKOutcome("raise", NoStep, <<ListUrl, ListUrl>>, NoResult, NoResult,
                           NoResult))
       \/ \E f \in {NoStep} \cup MacroSteps, u \in UrlPairs,
             m \in ExtractResults, c \in ExtractResults :
             Called(VKOutcome("ok", f, u, m, c, NoResult))

\* A call of fetch_vital_knowledge_headlines
SingleCallInit ==
    LET Called(out) ==
            tasks = <<ConnectorCall("fetch_vital_knowledge_headlines",
                                    [ticker |-> "bbb", out |-> out])>>
    IN \/ Called(VKOutcome("raise", NoStep, <<ListUrl, ListUrl>>, NoResult, NoResult,
                           NoResult))
       \/ \E f \in {NoStep} \cup SingleSteps, u \in UrlPairs,
             m \in ExtractResults, c \in ExtractResults, k \in ExtractResults :
             Called(VKOutcome("ok", f, u, m, c, k))

ConnectorInit ==
    /\ watchlist = <<>>
    /\ setting = NULL
    /\ use = [yahoo_quote |-> FALSE, yahoo_analysis |-> FALSE, marketwatch |-> FALSE,
              googlenews |-> FALSE, vital_knowledge |-> FALSE, macro_news |-> FALSE]
    /\ max_concurrent = 0
    /\ \/ /\ \E c \in GoogleNewsCalls : tasks = <<c>>
          /\ has_creds = TRUE
       \/ /\ BatchCallInit \/ MacroCallInit \/ SingleCallInit
          /\ has_creds \in BOOLEAN
    /\ sem = 0
    /\ completion = <<>>
    /\ leaked = 0
    /\ faults = 0
    /\ pc = "start"
    /\ results = <<>>
    /\ macro_news_result = NULL
    /\ vital_knowledge_batch_results = NULL
    /\ log = {}
    /\ files = [f \in FileNames |-> NULL]
    /\ typed_items = <<>>
    /\ bad_payloads = {}
    /\ prev = NULL

\* The connector call ends with the outcome r: a value or an exception
EndCall(r) ==
    /\ tasks' = <<[tasks[1] EXCEPT !.pos = IF r.raised THEN "raised" ELSE "returned",
                                   !.ret = r.value]>>
    /\ UNCHANGED <<config, sem, completion, leaked, faults, pc, post_join>>

\* "await fetch_google_news_stories(page, ticker, max_stories=..., max_days=...)"
CallGoogleNews ==
    /\ tasks[1].pos = "called"
    /\ tasks[1].func = "fetch_google_news_stories"
    /\ LET a == tasks[1].args
       IN EndCall(fetch_google_news_stories(a.ticker, a.out, a.max_stories))

\* "await fetch_vital_knowledge_headlines_batch(page, tickers)"
CallBatch ==
    /\ tasks[1].pos = "called"
    /\ tasks[1].func = "fetch_vital_knowledge_headlines_batch"
    /\ LET a == tasks[1].args
       IN EndCall(fetch_vital_knowledge_headlines_batch(a.tickers, has_creds, a.out))

\* "await fetch_macro_news(page)"
CallMacro ==
    /\ tasks[1].pos = "called"
    /\ tasks[1].func = "fetch_macro_news"
    /\ EndCall(fetch_macro_news(has_creds, tasks[1].args.out))

\* "await fetch_vital_knowledge_headlines(page, ticker)"
CallSingle ==
    /\ tasks[1].pos = "called"
    /\ tasks[1].func = "fetch_vital_knowledge_headlines"
    /\ LET a == tasks[1].args
       IN EndCall(fetch_vital_knowledge_headlines(a.ticker, has_creds, a.out))

ConnectorNext == CallGoogleNews \/ CallBatch \/ CallMacro \/ CallSingle

ConnectorSpec == ConnectorInit /\ [][ConnectorNext]_vars

\* The run of the watchlist ["AAA", "BBB"] with MAX_CONCURRENT_BROWSERS=1 and
\* only ENABLE_YAHOO_QUOTE and ENABLE_YAHOO_ANALYSIS on
TwoEntityInit ==
    /\ watchlist = <<"AAA", "BBB">>
    /\ use = [yahoo_quote |-> TRUE, yahoo_analysis |-> TRUE, marketwatch |-> FALSE,
              googlenews |-> FALSE, vital_knowledge |-> FALSE, macro_news |-> FALSE]
    /\ setting = Text(<<"1">>)
    /\ max_concurrent = get_max_concurrent_browsers(setting)
    /\ has_creds = TRUE
    /\ sem = max_concurrent
    /\ tasks = [i \in 1..Len(all_tasks(watchlist, use)) |->
                    StartTask(all_tasks(watchlist, use)[i])]
    /\ completion = <<>>
    /\ leaked = 0
    /\ faults = 0
    /\ pc = "gather"
    /\ results = <<>>
    /\ macro_news_result = NULL
    /\ vital_knowledge_batch_results = NULL
    /\ log = {}
    /\ files = [f \in FileNames |-> NULL]
    /\ typed_items = <<>>
    /\ bad_payloads = {}
    /\ prev = NULL

TwoEntitySpec == TwoEntityInit /\ [][Next]_vars

\* The runs that are followed through a second run
\* A run of a day on which every file of the day exists already
EarlierFiles == [f \in FileNames |-> Str("earlier " \o f)]

SecondRunInit ==
    /\ watchlist \in Watchlists
    /\ use \in Flags
    /\ NumCalls(watchlist, use) <= MaxCalls
    /\ setting \in RunSettings
    /\ max_concurrent = get_max_concurrent_browsers(setting)
    /\ has_creds \in (IF use.macro_news \/ use.vital_knowledge THEN BOOLEAN ELSE {TRUE})
    /\ sem = max_concurrent
    /\ tasks = [i \in 1..Len(all_tasks(watchlist, use)) |->
                    StartTask(all_tasks(watchlist, use)[i])]
    /\ completion = <<>>
    /\ leaked = 0
    /\ faults = 0
    /\ pc = "gather"
    /\ results = <<>>
    /\ macro_news_result = NULL
    /\ vital_knowledge_batch_results = NULL
    /\ log = {}
    /\ files = EarlierFiles
    /\ typed_items = <<>>
    /\ bad_payloads = {}
    /\ prev = NULL

SecondRunSpec == SecondRunInit /\ [][Next]_vars

RerunInit == Init /\ NumCalls(watchlist, use) <= MaxRerunCalls

RerunSpec == RerunInit /\ [][RerunNext]_vars

TypeOK ==
    /\ sem \in 0..max_concurrent
    /\ pc \in {"start", "gather", "merge", "snapshot", "report", "write", "done", "aborted",
              "report_aborted"}
    /\ faults \in 0..MaxFaults
    /\ leaked \in 0..faults

\* Every await resolves and every ready coroutine is run
FairSpec == Spec /\ WF_vars(Next)

(***************************************************************************)
(* Vocabulary of the properties                                            *)
(***************************************************************************)
\* The ticker tasks that are inside "async with sem"
Holders == {i \in TickerIds : tasks[i].pos \in {"acquire", "fetch", "close"}}

\* Main is past the join / past the merge / past the snapshot step
Joined == pc \in {"merge", "snapshot", "report", "write", "done", "report_aborted"}

Merged == pc \in {"snapshot", "report", "write", "done", "report_aborted"}

SnapshotsWritten == pc \in {"report", "write", "done", "report_aborted"}

ReportBuilt == pc \in {"write", "done"}

\* The wrapper call c of task t got its session and its connector failed:
\* a page operation raised (or, for the Vital Knowledge connectors, the
\* credentials are missing)
ConnectorFailed(t, c) ==
    /\ c.acq = "ok"
    /\ c.out # NULL
    /\ IF t.kind = "ticker"
       THEN IF c.src = 4 THEN c.out.nav = "raise" ELSE c.out.str = "raise"
       ELSE ~has_creds \/ c.out.str # "ok"

AcquireFailed(c) == c.acq \in {"raise_config", "raise_init"}

\* The payload source c.src has in the record of t when judged from its own
\* call alone
OwnPayload(t, c) ==
    IF c.acq # "ok" \/ c.out = NULL THEN NULL
    ELSE LET r == Body([t EXCEPT !.src = c.src], IF c.src = 4 THEN c.out ELSE c.out.str)
         IN IF r.raised THEN NULL ELSE DumpOrNone(r.value)

NonEmptyString(v) == IF v = NULL THEN FALSE ELSE v.str # ""

(***************************************************************************)
(* C1: at most max_concurrent process_ticker tasks are inside the          *)
(* semaphore-guarded section at any time.                                  *)
(***************************************************************************)
Thm_C1 == Cardinality(Holders) <= max_concurrent

\* The gate is full and another ticker task waits for it
W_C1 ==
    /\ Cardinality(Holders) = max_concurrent
    /\ \E i \in TickerIds : tasks[i].pos = "wait"

(***************************************************************************)
(* C2: if the connector of an enabled per-entity source fails for an       *)
(* entity, the entity's record has a null payload for that source and a    *)
(* non-empty error string, and the payloads of its other sources are what  *)
(* their own calls gave.                                                   *)
(***************************************************************************)
Cx_C2 ==
    \A i \in TickerIds :
        tasks[i].pos = "done" =>
            \A n \in DOMAIN tasks[i].hist :
                LET t == tasks[i]
                    c == t.hist[n]
                IN ConnectorFailed(t, c) =>
                      /\ t.ret[SOURCES[c.src]] = NULL
                      /\ NonEmptyString(t.ret.error)
                      /\ \A m \in DOMAIN t.hist \ {n} :
                            t.ret[SOURCES[t.hist[m].src]] = OwnPayload(t, t.hist[m])

(***************************************************************************)
(* C3: when a session wrapper has returned, no Stagehand object created by *)
(* that call is left without close().                                      *)
(***************************************************************************)
Cx_C3 == leaked = 0

(***************************************************************************)
(* C4: after the join the i-th entity result is the record of the i-th     *)
(* watchlist entry, whatever the completion order of the tasks.            *)
(***************************************************************************)
Thm_C4 ==
    Joined =>
        /\ Len(results) = Len(watchlist)
        /\ \A i \in DOMAIN results : results[i].ticker = watchlist[i]

\* The second ticker task returned before the first one
W_C4 ==
    /\ Joined
    /\ Len(completion) >= 2
    /\ completion[1] > completion[2]
    /\ \A i \in DOMAIN results : results[i].ticker = watchlist[i]

(***************************************************************************)
(* C5: no failure inside a task aborts the run: no exception leaves a      *)
(* task, the join ends with one result per task, and the run goes on to    *)
(* write its snapshots.                                                    *)
(***************************************************************************)
SafeC5 ==
    /\ pc # "aborted"
    /\ \A i \in TaskIds : tasks[i].pos # "raised"
    /\ Joined =>
          /\ \A i \in TaskIds : tasks[i].pos = "done"
          /\ Len(results) = Len(watchlist)
    /\ SnapshotsWritten => files["yahoo"] # NULL

Thm_C5 == []SafeC5 /\ <>SnapshotsWritten

\* The snapshots are written in a run in which the fault bound was used up
W_C5 ==
    /\ SnapshotsWritten
    /\ faults >= 1
    /\ \E i \in TaskIds : \E n \in DOMAIN tasks[i].hist :
          AcquireFailed(tasks[i].hist[n]) \/ ConnectorFailed(tasks[i], tasks[i].hist[n])

(***************************************************************************)
(* C6: a process_ticker task makes exactly one wrapper call per enabled    *)
(* source, in the order quote, analysis, marketwatch, googlenews, whether  *)
(* or not earlier ones failed, then returns a record; it never raises.     *)
(***************************************************************************)
EnabledSources == SelectSeq([k \in 1..NumSources |-> k], UseSource)

CalledSources(t) == [n \in DOMAIN t.hist |-> t.hist[n].src]

Thm_C6 ==
    \A i \in TickerIds :
        /\ tasks[i].pos # "raised"
        /\ Len(tasks[i].hist) <= Len(EnabledSources)
        /\ CalledSources(tasks[i]) = SubSeq(EnabledSources, 1, Len(tasks[i].hist))
        /\ tasks[i].pos = "done" => CalledSources(tasks[i]) = EnabledSources
        /\ tasks[i].pos = "done" => tasks[i].ret.ticker = tasks[i].ticker

\* A task returned after an early source failed and later ones were still run
W_C6 ==
    \E i \in TickerIds :
        /\ tasks[i].pos = "done"
        /\ Len(tasks[i].hist) >= 2
        /\ tasks[i].ret[SOURCES[tasks[i].hist[1].src]] = NULL
        /\ tasks[i].hist[Len(tasks[i].hist)].acq = "ok"

(***************************************************************************)
(* C7: when the batch connector fails (no session, no credentials, login   *)
(* or a later step fails), _run_vital_knowledge_batch returns an empty     *)
(* mapping, the run is not aborted, and every merged record has a null     *)
(* vital_knowledge slot.                                                   *)
(***************************************************************************)
BatchFailed(t) ==
    /\ t.kind = "batch"
    /\ t.pos = "done"
    /\ AcquireFailed(t.hist[1]) \/ ConnectorFailed(t, t.hist[1])

Cx_C7 ==
    \A i \in TaskIds :
        BatchFailed(tasks[i]) =>
            /\ tasks[i].ret = <<>>
            /\ pc # "aborted"
            /\ Merged => \A j \in DOMAIN results : results[j].vital_knowledge = NULL

(***************************************************************************)
(* C8: after the merge, with the batch source enabled, a record whose      *)
(* ticker is in the batch mapping holds the batch payload; a record whose  *)
(* ticker is not in it (also when the mapping is empty) keeps a null slot  *)
(* and a diagnostic was emitted for it.                                    *)
(***************************************************************************)
Cx_C8 ==
    (Merged /\ use.vital_knowledge) =>
        \A j \in DOMAIN results :
            IF results[j].ticker \in DOMAIN vital_knowledge_batch_results
            THEN results[j].vital_knowledge =
                    model_dump(vital_knowledge_batch_results[results[j].ticker])
            ELSE /\ results[j].vital_knowledge = NULL
                 /\ Warn("no_vital_knowledge", results[j].ticker) \in log

(***************************************************************************)
(* C9: every entry of typed_items is built from a non-null quote payload;  *)
(* a record whose quote payload is null has no entry, whatever its other   *)
(* payloads are.                                                           *)
(***************************************************************************)
Thm_C9 ==
    ReportBuilt =>
        /\ \A i \in DOMAIN typed_items : typed_items[i][1].fields # NULL
        /\ \A j \in DOMAIN results :
              results[j].quote = NULL =>
                 \A i \in DOMAIN typed_items :
                    typed_items[i][2].fields.ticker # results[j].ticker
        /\ files["report"] # NULL => files["report"].items = typed_items

\* A record without quote but with another payload is left out of a report
\* that has an entry for another entity
W_C9 ==
    /\ pc = "done"
    /\ files["report"] # NULL
    /\ \E j \in DOMAIN results :
          /\ results[j].quote = NULL
          /\ \E f \in {"analysis", "marketwatch", "googlenews", "vital_knowledge"} :
                results[j][f] # NULL

(***************************************************************************)
(* C10: a record with a quote payload and no analysis payload (source      *)
(* disabled or failed) has an entry in typed_items whose analysis object   *)
(* has a null title, a null summary and an empty bullet list.              *)
(***************************************************************************)
Thm_C10 ==
    ReportBuilt =>
        \A j \in DOMAIN results :
            (results[j].quote # NULL /\ results[j].analysis = NULL) =>
                \E i \in DOMAIN typed_items :
                    /\ typed_items[i][1] = Obj("YahooQuoteSnapshot", results[j].quote)
                    /\ typed_items[i][2] # NULL
                    /\ typed_items[i][2].cls = "YahooAIAnalysis"
                    /\ typed_items[i][2].fields.ticker = results[j].ticker
                    /\ typed_items[i][2].fields.title = NULL
                    /\ typed_items[i][2].fields.summary = NULL
                    /\ typed_items[i][2].fields.bullets = <<>>

\* The report is written with a fallback analysis after a failed analysis fetch
W_C10 ==
    /\ pc = "done"
    /\ use.yahoo_analysis
    /\ \E j \in DOMAIN results :
          /\ results[j].quote # NULL
          /\ results[j].analysis = NULL
          /\ files["report"] # NULL
          /\ files["report"].items[1][2].fields.title = NULL

(***************************************************************************)
(* C11: a payload of any source (quote, analysis, marketwatch, googlenews,  *)
(* vital_knowledge, macro) that cannot be rebuilt into its class in step 7  *)
(* is treated as absent and logged: main does not end with the exception,   *)
(* the record keeps its entry with a null object for that payload, and a    *)
(* warning names it.                                                        *)
(***************************************************************************)
TupleSlot == [quote |-> 1, analysis |-> 2, marketwatch |-> 3, googlenews |-> 4,
              vital_knowledge |-> 5]

TreatedAsAbsent ==
    /\ ReportBuilt =>
          \A s \in bad_payloads \ {MacroSite} :
              /\ \E i \in DOMAIN typed_items :
                    /\ typed_items[i][1].fields.ticker = results[s[1]].ticker
                    /\ typed_items[i][TupleSlot[s[2]]] = NULL
              /\ Warn("parse_" \o s[2], results[s[1]].ticker) \in log
    /\ (pc = "done" /\ MacroSite \in bad_payloads) =>
          /\ files["report"].macro = NULL
          /\ Warn("parse_macro", NoTicker) \in log

Cx_C11 ==
    /\ pc # "report_aborted"
    /\ TreatedAsAbsent

(***************************************************************************)
(* C12: when create_stagehand_session fails in a wrapper call, the wrapper  *)
(* returns None (the empty mapping in the batch wrapper) and does not       *)
(* raise, the connector is not called, and in a process_ticker task the     *)
(* source's failure message is added to the error list.                     *)
(***************************************************************************)
Thm_C12 ==
    \A i \in TaskIds : \A n \in DOMAIN tasks[i].hist :
        LET t == tasks[i]
            c == t.hist[n]
        IN AcquireFailed(c) =>
              /\ c.out = NULL
              /\ c.rel = "pending"
              /\ t.pos # "raised"
              /\ t.kind = "ticker" =>
                    /\ t.slots[c.src] = NULL
                    /\ \E m \in DOMAIN t.error_messages :
                          t.error_messages[m] = SourceName[c.src] \o " failed"
                    /\ t.pos = "done" =>
                          /\ t.ret[SOURCES[c.src]] = NULL
                          /\ NonEmptyString(t.ret.error)
              /\ t.kind = "macro" => t.pos = "done" /\ t.ret = NULL
              /\ t.kind = "batch" => t.pos = "done" /\ t.ret = <<>>

\* A process_ticker task and the batch task have returned, each after a failed
\* session acquisition
W_C12 ==
    /\ \E i \in TickerIds :
          /\ tasks[i].pos = "done"
          /\ \E n \in DOMAIN tasks[i].hist : AcquireFailed(tasks[i].hist[n])
    /\ \E i \in TaskIds :
          /\ tasks[i].kind = "batch"
          /\ tasks[i].pos = "done"
          /\ AcquireFailed(tasks[i].hist[1])

(***************************************************************************)
(* C13: when stagehand.close() raises, the wrapper gives its caller what    *)
(* it would have given had close() succeeded: the payload of a successful   *)
(* fetch, None (the empty mapping in the batch wrapper) after a failed one; *)
(* no exception leaves the wrapper.                                         *)
(***************************************************************************)
\* What the try block of wrapper call c decides the wrapper returns
WrapperValue(t, c) ==
    IF c.acq # "ok" THEN FailValue(t)
    ELSE LET r == Body([t EXCEPT !.src = c.src], IF c.src = 4 THEN c.out ELSE c.out.str)
         IN IF r.raised THEN FailValue(t) ELSE r.value

Thm_C13 ==
    \A i \in TaskIds : \A n \in DOMAIN tasks[i].hist :
        LET t == tasks[i]
            c == t.hist[n]
        IN c.rel = "raise" =>
              /\ t.pos # "raised"
              /\ t.kind = "ticker" => t.slots[c.src] = WrapperValue(t, c)
              /\ t.kind # "ticker" => t.pos = "done" /\ t.ret = WrapperValue(t, c)

\* close() raised after a successful fetch in one wrapper call and after a
\* failed fetch in another
W_C13 ==
    /\ \E i \in TaskIds : \E n \in DOMAIN tasks[i].hist :
          /\ tasks[i].hist[n].rel = "raise"
          /\ Truthy(WrapperValue(tasks[i], tasks[i].hist[n]))
    /\ \E i \in TaskIds : \E n \in DOMAIN tasks[i].hist :
          /\ tasks[i].hist[n].rel = "raise"
          /\ ~Truthy(WrapperValue(tasks[i], tasks[i].hist[n]))

(***************************************************************************)
(* C14: a process_ticker task holds its gate slot from before its first    *)
(* connector attempt until its last enabled attempt has finished and its    *)
(* session is closed; it releases the slot exactly once; no session of the  *)
(* task is open while it does not hold the slot.                            *)
(***************************************************************************)
\* Wrapper call c has a session that is not closed yet
SessionOpen(c) == c.acq = "ok" /\ c.rel = "pending"

CallFinished(c) == AcquireFailed(c) \/ c.rel \in {"ok", "raise"}

Thm_C14 ==
    /\ sem = max_concurrent - Cardinality({i \in TickerIds : tasks[i].holds})
    /\ \A i \in TickerIds :
          LET t == tasks[i]
          IN /\ t.releases <= 1
             /\ t.pos \in {"acquire", "fetch", "close"} => t.holds
             /\ ~t.holds =>
                   \/ t.pos = "wait" /\ t.hist = <<>> /\ t.releases = 0
                   \/ /\ t.pos = "done"
                      /\ t.releases = 1
                      /\ CalledSources(t) = EnabledSources
                      /\ \A n \in DOMAIN t.hist : CallFinished(t.hist[n])
             /\ \A n \in DOMAIN t.hist : SessionOpen(t.hist[n]) => t.holds

\* A task has released its slot after two finished connector attempts
W_C14 ==
    \E i \in TickerIds :
        /\ tasks[i].pos = "done"
        /\ Len(tasks[i].hist) >= 2
        /\ tasks[i].hist[1].rel # "pending"
        /\ tasks[i].releases = 1
        /\ sem = max_concurrent

(***************************************************************************)
(* C15: main leaves the join only when every process_ticker task, the      *)
(* macro task and the batch task have finished, whether they succeeded or   *)
(* not; nothing is merged or written while a task is still running.         *)
(***************************************************************************)
UngatedIds == TaskIds \ TickerIds

Thm_C15 ==
    /\ pc # "gather" => \A i \in TaskIds : tasks[i].pos = "done"
    /\ (\E i \in TaskIds : tasks[i].pos # "done") =>
          /\ results = <<>>
          /\ log = {}
          /\ typed_items = <<>>
          /\ \A f \in FileNames : files[f] = NULL

\* Main is past the join of a process_ticker task, the macro task and the
\* batch task, one of which failed to get its session
W_C15 ==
    /\ pc = "merge"
    /\ TickerIds # {}
    /\ use.macro_news
    /\ use.vital_knowledge
    /\ \E i \in UngatedIds : AcquireFailed(tasks[i].hist[1])

(***************************************************************************)
(* C16: the macro task and the batch task never take or wait for the       *)
(* semaphore: each of their steps can be taken while every slot is held by  *)
(* process_ticker tasks, and a process_ticker task that finds a free slot   *)
(* can take it whatever the macro and batch tasks are doing.                *)
(***************************************************************************)
Thm_C16 ==
    /\ \A i \in UngatedIds :
          /\ ~tasks[i].holds
          /\ tasks[i].pos # "wait"
          /\ tasks[i].pos = "acquire" => ENABLED AcquireSession(i)
          /\ tasks[i].pos = "fetch" => ENABLED Fetch(i)
          /\ tasks[i].pos = "close" => ENABLED CloseSession(i)
    /\ \A i \in TickerIds :
          (/\ tasks[i].pos = "wait"
           /\ sem > 0
           /\ \A j \in 1..(i - 1) : tasks[j].pos # "wait") => ENABLED EnterGate(i)

\* The macro or batch task has got its session and finished while every slot
\* is held and a process_ticker task waits for one
W_C16 ==
    /\ sem = 0
    /\ \E i \in TickerIds : tasks[i].pos = "wait"
    /\ \E i \in UngatedIds : tasks[i].hist[1].acq = "ok"
    /\ \A i \in UngatedIds : tasks[i].pos = "done"

(***************************************************************************)
(* C17: before the join the record of an entity is written by that          *)
(* entity's process_ticker task only, after the join by the merge step      *)
(* only: no step changes the records of two tasks, the tasks are finished   *)
(* when the merge runs, and the merge changes the vital_knowledge slot only.*)
(***************************************************************************)
\* The part of a record its process_ticker task writes
TaskWritten(item) ==
    [f \in {"ticker", "error", "quote", "analysis", "marketwatch", "googlenews"} |-> item[f]]

OneWriter ==
    /\ \A i \in TaskIds :
          tasks'[i] # tasks[i] =>
             /\ pc = "gather" /\ pc' = "gather"
             /\ results' = results
             /\ \A j \in TaskIds \ {i} : tasks'[j] = tasks[j]
    /\ results' # results =>
          /\ tasks' = tasks
          /\ \A i \in TaskIds : tasks[i].pos = "done"
          /\ \/ /\ pc = "gather"
                /\ \A j \in DOMAIN results' :
                      /\ results'[j] = tasks[j].ret
                      /\ results'[j].vital_knowledge = NULL
             \/ /\ pc = "merge"
                /\ DOMAIN results' = DOMAIN results
                /\ \A j \in DOMAIN results : TaskWritten(results'[j]) = TaskWritten(results[j])

Thm_C17 == [][OneWriter]_vars

\* A record holds an error string written by its task and a payload written
\* by the merge
W_C17 ==
    /\ Merged
    /\ \E j \in DOMAIN results :
          /\ results[j].vital_knowledge # NULL
          /\ results[j].error # NULL
          /\ tasks[j].ret.vital_knowledge = NULL

(***************************************************************************)
(* C18: every source error that affects an entity (a failure of one of its  *)
(* own connector attempts, or a failure of the batch task that leaves it    *)
(* without batch data) shows as a non-null error string in the entity's     *)
(* entries of the snapshot files.                                           *)
(***************************************************************************)
SnapshotFiles == {"yahoo", "marketwatch", "googlenews", "vital_knowledge"}

OwnSourceFailed(j) ==
    \E n \in DOMAIN tasks[j].hist :
        AcquireFailed(tasks[j].hist[n]) \/ ConnectorFailed(tasks[j], tasks[j].hist[n])

LeftWithoutBatchData(j) ==
    /\ results[j].vital_knowledge = NULL
    /\ \E i \in TaskIds : BatchFailed(tasks[i])

Cx_C18 ==
    SnapshotsWritten =>
        \A j \in DOMAIN results :
            (OwnSourceFailed(j) \/ LeftWithoutBatchData(j)) =>
                \A f \in SnapshotFiles : files[f].tickers[j].error # NULL

(***************************************************************************)
(* C19: the error string of a record is the messages of the enabled        *)
(* per-entity sources whose attempt gave no payload, one each, in source    *)
(* order, joined with "; "; it is null exactly when there is none.          *)
(***************************************************************************)
\* The wrapper call gave process_ticker nothing ("if x:" is false)
AttemptFailed(t, c) == ~Truthy(WrapperValue(t, c))

FailedCalls(t) == SelectSeq(t.hist, LAMBDA c : AttemptFailed(t, c))

Thm_C19 ==
    \A i \in TickerIds :
        tasks[i].pos = "done" =>
            LET t == tasks[i]
                failed == FailedCalls(t)
                msgs == [n \in DOMAIN failed |-> SourceName[failed[n].src] \o " failed"]
            IN /\ \A n \in DOMAIN failed : \A m \in DOMAIN failed :
                     n < m => failed[n].src < failed[m].src
               /\ t.ret.error = NULL <=> failed = <<>>
               /\ Len(failed) = 1 => t.ret.error = Str(msgs[1])
               /\ Len(failed) = 2 => t.ret.error = Str(msgs[1] \o "; " \o msgs[2])
               /\ failed # <<>> => t.ret.error = Str(Join(msgs))

\* Quote and analysis both failed for an entity
W_C19 ==
    \E i \in TickerIds :
        /\ tasks[i].pos = "done"
        /\ tasks[i].ret.error = Str("YahooQuote failed; YahooAI failed")

(***************************************************************************)
(* C20: without the Vital Knowledge credentials only the macro task and    *)
(* the batch task fail: they return None and the empty mapping and their    *)
(* sessions are closed; every process_ticker task still attempts all its    *)
(* enabled sources and the run writes its snapshots, with an entry for      *)
(* every entity.                                                            *)
(***************************************************************************)
SafeC20 ==
    /\ pc # "aborted"
    /\ \A i \in UngatedIds :
          LET t == tasks[i]
          IN /\ t.pos # "raised"
             /\ t.pos = "done" =>
                   /\ t.ret = FailValue(t)
                   /\ t.hist[1].acq = "ok" => t.hist[1].out # NULL /\ t.hist[1].rel # "pending"
    /\ \A i \in TickerIds :
          /\ tasks[i].pos # "raised"
          /\ tasks[i].pos = "done" => CalledSources(tasks[i]) = EnabledSources
          /\ tasks[i].pos = "done" =>
                \A n \in DOMAIN tasks[i].hist :
                    tasks[i].slots[tasks[i].hist[n].src] = WrapperValue(tasks[i], tasks[i].hist[n])
    /\ Joined =>
          /\ macro_news_result = NULL
          /\ use.vital_knowledge => vital_knowledge_batch_results = <<>>
    /\ SnapshotsWritten =>
          \A f \in SnapshotFiles : Len(files[f].tickers) = Len(watchlist)

\* has_creds does not change during a run
Thm_C20 == [](~has_creds => SafeC20) /\ <>(~has_creds => SnapshotsWritten)

\* The snapshots are written with the quote of an entity in a run without
\* credentials in which the macro and the batch task got their sessions
W_C20 ==
    /\ ~has_creds
    /\ SnapshotsWritten
    /\ use.macro_news
    /\ use.vital_knowledge
    /\ \A i \in UngatedIds : tasks[i].hist[1].rel # "pending"
    /\ \E j \in DOMAIN results : files["yahoo"].tickers[j].quote # NULL

(***************************************************************************)
(* C21: when no record has a quote payload after the join, main writes no   *)
(* report file, has written the snapshot files before it gets to the        *)
(* report step, and returns from the report step without an exception,      *)
(* having printed the warning that no ticker is left for the report.        *)
(***************************************************************************)
NoQuote == \A j \in DOMAIN results : ~HasQuote(results[j])

SnapshotFilesWritten ==
    /\ \A f \in SnapshotFiles :
          /\ files[f] # NULL
          /\ Len(files[f].tickers) = Len(watchlist)
    /\ use.macro_news => files["macro_news"] # NULL

Thm_C21 ==
    (Joined /\ NoQuote) =>
        /\ files["report"] = NULL
        /\ typed_items = <<>>
        /\ pc \notin {"write", "aborted", "report_aborted"}
        /\ SnapshotsWritten => SnapshotFilesWritten
        /\ pc = "report" =>
              /\ ENABLED BuildReport
              /\ ~ENABLED (BuildReport /\ (pc' # "done" \/ files' # files))
        \* main printed the warning of line 428 before it returned
        /\ pc = "done" => Warn("no_tickers", NoTicker) \in log

\* Main has returned without a report in a run with an entity whose quote
\* fetch failed; the snapshot files are there
W_C21 ==
    /\ pc = "done"
    /\ results # <<>>
    /\ use.yahoo_quote
    /\ NoQuote
    /\ files["report"] = NULL
    /\ SnapshotFilesWritten

(***************************************************************************)
(* C22: a second run on the same day with the same watchlist, settings and  *)
(* outcomes of the external operations leaves every snapshot and report     *)
(* file as the first run left it: the same files exist, with the same       *)
(* contents, and the tickers list of every snapshot has exactly one entry   *)
(* per watchlist entry, in watchlist order.                                 *)
(***************************************************************************)
OneEntryPerEntity(file) ==
    /\ Len(file.tickers) = Len(watchlist)
    /\ \A j \in DOMAIN file.tickers : file.tickers[j].ticker = watchlist[j]

Thm_C22 ==
    (prev # NULL /\ RunEnded) =>
        /\ files = prev.files
        /\ \A f \in SnapshotFiles : files[f] # NULL /\ OneEntryPerEntity(files[f])

\* The second run has ended after rewriting the snapshots and the report of
\* a watchlist of two
W_C22 ==
    /\ prev # NULL
    /\ pc = "done"
    /\ Len(watchlist) = 2
    /\ files["report"] # NULL
    /\ prev.files["report"] # NULL
    /\ Len(files["yahoo"].tickers) = 2

(***************************************************************************)
(* C23: watchlist ["AAA", "BBB"], one gate slot, only quote and analysis    *)
(* enabled, every quote fetch succeeds and every analysis fetch fails: the  *)
(* report is built from both entities in watchlist order, each with the     *)
(* fallback analysis object, and each record has a non-null error string.   *)
(***************************************************************************)
\* Every quote call of the run got its session and its payload, and every
\* analysis call failed at the session or in the connector
QuoteOkAnalysisFailed ==
    \A i \in TickerIds : \A n \in DOMAIN tasks[i].hist :
        LET c == tasks[i].hist[n]
        IN /\ c.src = 1 => c.acq = "ok" /\ c.out = Str("ok")
           /\ c.src = 2 => AcquireFailed(c) \/ ConnectorFailed(tasks[i], c)

Thm_C23 ==
    (RunEnded /\ QuoteOkAnalysisFailed /\ bad_payloads = {}) =>
        /\ pc = "done"
        /\ files["report"] # NULL
        /\ files["report"].items = typed_items
        /\ Len(typed_items) = 2
        /\ \A j \in 1..2 :
              /\ typed_items[j][1] = Obj("YahooQuoteSnapshot", [ticker |-> watchlist[j]])
              /\ typed_items[j][2] = EmptyAnalysis(watchlist[j])
              /\ results[j].ticker = watchlist[j]
              /\ results[j].error = Str("YahooAI failed")
              /\ files["yahoo"].tickers[j].error # NULL
        /\ Cardinality({j \in DOMAIN results : results[j].error # NULL}) = 2

\* The report of the scenario is written, the analysis of AAA having failed
\* in the connector and that of BBB at the session
W_C23 ==
    /\ watchlist = <<"AAA", "BBB">>
    /\ max_concurrent = 1
    /\ pc = "done"
    /\ QuoteOkAnalysisFailed
    /\ files["report"] # NULL
    /\ ConnectorFailed(tasks[1], tasks[1].hist[2])
    /\ AcquireFailed(tasks[2].hist[2])
    /\ completion = <<1, 2>>

(***************************************************************************)
(* C24: the report builder is given a non-null macro object only if the     *)
(* macro source is enabled and its task returned a record with a non-null   *)
(* summary; with the source disabled or failed, or with a record whose      *)
(* summaries are all null, it is given None.                                *)
(***************************************************************************)
HasSummary(o) ==
    /\ o # NULL
    /\ o.fields.morning_summary # NULL \/ o.fields.market_close_summary # NULL

Cx_C24 ==
    (pc = "done" /\ files["report"] # NULL) =>
        (files["report"].macro # NULL <=>
            (use.macro_news /\ HasSummary(macro_news_result) /\ MacroSite \notin bad_payloads))

(***************************************************************************)
(* C25: the snapshot step writes one document for each of the five source   *)
(* categories quote, analysis, marketwatch, googlenews and vital_knowledge, *)
(* whose tickers list is the (ticker, error, payload) projection of the     *)
(* records in watchlist order, and one document for the macro record.       *)
(***************************************************************************)
Projection(rs, c) ==
    [j \in DOMAIN rs |-> [ticker |-> rs[j].ticker, error |-> rs[j].error, payload |-> rs[j][c]]]

\* The entries of a snapshot file as (ticker, error, payload) of category c
EntriesAs(file, c) ==
    [j \in DOMAIN file.tickers |->
        [ticker |-> file.tickers[j].ticker, error |-> file.tickers[j].error,
         payload |-> file.tickers[j][c]]]

\* File f is the document of category c
DocumentOf(f, c) ==
    /\ files[f] # NULL
    /\ DOMAIN files[f] = {"as_of", "tickers"}
    /\ \A j \in DOMAIN files[f].tickers : DOMAIN files[f].tickers[j] = {"ticker", "error", c}
    /\ EntriesAs(files[f], c) = Projection(results, c)

Cx_C25 ==
    SnapshotsWritten =>
        /\ \A c \in PayloadKeys : \E f \in SnapshotFiles : DocumentOf(f, c)
        /\ files["macro_news"] # NULL

(***************************************************************************)
(* C26: the batch mapping is keyed by the upper-cased ticker and the merge  *)
(* looks a record up by the ticker stored in it; every record for whose     *)
(* watchlist entry the batch connector returned a report holds that report  *)
(* in its vital_knowledge slot after the merge, whatever the letter case of *)
(* the watchlist entry.                                                     *)
(***************************************************************************)
Cx_C26 ==
    (Merged /\ use.vital_knowledge) =>
        /\ \A k \in DOMAIN vital_knowledge_batch_results :
              /\ k = Upper(k)
              /\ vital_knowledge_batch_results[k].fields.ticker = k
        /\ \A j \in DOMAIN results :
              /\ results[j].ticker = watchlist[j]
              /\ Upper(watchlist[j]) \in DOMAIN vital_knowledge_batch_results =>
                    results[j].vital_knowledge =
                        model_dump(vital_knowledge_batch_results[Upper(watchlist[j])])

(***************************************************************************)
(* C27: when every awaited external call returns or raises and the event    *)
(* loop runs every ready coroutine, every process_ticker task gets a slot   *)
(* of the semaphore and returns, gather returns, and main reaches its end:  *)
(* no task waits at "async with sem" for ever.                              *)
(***************************************************************************)
\* Every process_ticker task has been through the gate and has returned
AllThroughGate ==
    \A i \in TickerIds :
        /\ tasks[i].pos = "done"
        /\ tasks[i].releases = 1
        /\ ~tasks[i].holds

RunComplete ==
    /\ RunEnded
    /\ Joined
    /\ AllDone(tasks)
    /\ AllThroughGate
    /\ sem = max_concurrent

Thm_C27 == <>RunComplete /\ [](RunEnded => RunComplete)

\* main has ended in a run with more process_ticker tasks than slots, in
\* which a session acquisition failed
W_C27 ==
    /\ RunComplete
    /\ Len(watchlist) > max_concurrent
    /\ Len(completion) = Len(watchlist)
    /\ \E i \in TickerIds : \E n \in DOMAIN tasks[i].hist : AcquireFailed(tasks[i].hist[n])

(***************************************************************************)
(* C28: while a connector call of a task has not returned the task does     *)
(* not go on: a process_ticker task keeps its slot of the semaphore, gather *)
(* does not return, and no snapshot or report file is written; only the     *)
(* return of the call moves the task on, so a call that never returns       *)
(* leaves the run like this for ever.                                       *)
(***************************************************************************)
\* Task i is at "await fetch_func(...)"
InConnector(i) == tasks[i].pos = "fetch"

Stalled(i) ==
    /\ pc = "gather"
    /\ ~ENABLED JoinTasks
    /\ results = <<>>
    /\ \A f \in FileNames : files[f] = NULL
    /\ tasks[i].kind = "ticker" =>
          /\ tasks[i].holds
          /\ tasks[i].releases = 0
          /\ i \in Holders
          /\ sem <= max_concurrent - 1

\* Nothing but the return of its connector call changes a task that awaits it
OnlyReturnMovesOn ==
    \A i \in TaskIds :
        (InConnector(i) /\ tasks'[i] # tasks[i]) =>
            /\ tasks'[i].pos = "close"
            /\ tasks'[i].hist[Len(tasks'[i].hist)].out # NULL
            /\ tasks'[i].holds = tasks[i].holds

Thm_C28 == [](\A i \in TaskIds : InConnector(i) => Stalled(i)) /\ [][OnlyReturnMovesOn]_vars

\* A process_ticker task awaits its connector with the only slot, the other
\* process_ticker task waits for the slot and every other task has returned:
\* nothing can happen before the call returns
W_C28 ==
    /\ \E i \in TickerIds : InConnector(i) /\ sem = 0
    /\ \E i \in TickerIds : tasks[i].pos = "wait"
    /\ \A i \in TaskIds : tasks[i].pos \in {"fetch", "wait", "done"}
    /\ Cardinality({i \in TaskIds : InConnector(i)}) = 1
    /\ pc = "gather"

(***************************************************************************)
(* C29: the capacity _get_max_concurrent_browsers gives is an integer of at *)
(* least 1: it is 2 when the setting is unset, empty or not the text of an  *)
(* integer, and max(1, v) when the setting is the text of the integer v.    *)
(***************************************************************************)
RECURSIVE NatDec(_)
\* str(n) for n >= 0, as characters
NatDec(n) == IF n < 10 THEN <<Digits[n + 1]>> ELSE Append(NatDec(n \div 10), Digits[(n % 10) + 1])

Blanks(n) == [i \in 1..n |-> " "]

Zeros(n) == [i \in 1..n |-> "0"]

Signs == {<<>>, <<"+">>, <<"-">>}

\* The texts of digits among the inputs, and the natural number each is the
\* decimal notation of, leading zeros allowed
DigitTexts == SeqsUpTo({Digits[d + 1] : d \in 0..MaxSetting}, MaxSettingLen) \ {<<>>}

NaturalOf ==
    [ds \in DigitTexts |->
        CHOOSE n \in 0..(10^MaxSettingLen - 1) :
            \E k \in 0..(Len(ds) - 1) : ds = Zeros(k) \o NatDec(n)]

\* The inputs that are texts of integers, each with its integer: blanks, a
\* sign, digits, blanks
IntegerTexts ==
    {<<Blanks(sh[1]) \o sh[2] \o sh[3] \o Blanks(sh[4]),
       IF sh[2] = <<"-">> THEN -NaturalOf[sh[3]] ELSE NaturalOf[sh[3]]>> :
        sh \in {x \in (0..MaxSettingLen) \X Signs \X DigitTexts \X (0..MaxSettingLen) :
                    x[1] + Len(x[2]) + Len(x[3]) + x[4] <= MaxSettingLen}}

IntegersOf(chars) == {p[2] : p \in {q \in IntegerTexts : q[1] = chars}}

Thm_C29 ==
    pc # "start" =>
        /\ max_concurrent \in Nat
        /\ max_concurrent >= 1
        /\ sem = max_concurrent
        /\ (setting = NULL \/ setting = Text(<<>>)) => max_concurrent = 2
        /\ (setting # NULL /\ \A i \in DOMAIN setting.chars : setting.chars[i] # "_") =>
              IF IntegersOf(setting.chars) = {}
              THEN max_concurrent = 2
              ELSE \A v \in IntegersOf(setting.chars) : max_concurrent = Max(1, v)
        \* int accepts an underscore between two digits only
        /\ setting = Text(<<"1", "_", "1">>) => max_concurrent = 11
        /\ setting = Text(<<"_", "1">>) => max_concurrent = 2
        /\ setting = Text(<<"1", "_">>) => max_concurrent = 2

\* The capacity was computed from the setting " -1"
W_C29 ==
    /\ pc = "gather"
    /\ setting = Text(<<" ", "-", "1">>)
    /\ max_concurrent = 1
    /\ sem = 1

(***************************************************************************)
(* C30: a process_ticker task has at most one session open at any time:     *)
(* when it asks for the session of its next source, the session of every    *)
(* earlier source has been closed, or its close() has raised.               *)
(***************************************************************************)
OpenSessions(t) == {n \in DOMAIN t.hist : SessionOpen(t.hist[n])}

Thm_C30 ==
    \A i \in TickerIds :
        LET t == tasks[i]
        IN /\ Cardinality(OpenSessions(t)) <= 1
           /\ \A n \in DOMAIN t.hist : n < Len(t.hist) => CallFinished(t.hist[n])
           /\ \A n \in OpenSessions(t) :
                 /\ n = Len(t.hist)
                 /\ t.pos \in {"fetch", "close"}
           /\ t.pos \in {"wait", "done"} => OpenSessions(t) = {}

\* A task has the session of its second source open; the close() of the
\* session of its first source raised
W_C30 ==
    \E i \in TickerIds :
        /\ Len(tasks[i].hist) = 2
        /\ tasks[i].hist[1].acq = "ok"
        /\ tasks[i].hist[1].rel = "raise"
        /\ SessionOpen(tasks[i].hist[2])

(***************************************************************************)
(* C31: the sessions open at the same time are at most max_concurrent plus  *)
(* one for each of the macro task and the batch task that is enabled,       *)
(* however many entities the watchlist has.                                 *)
(***************************************************************************)
\* The wrapper calls of the run that have a session open
AllOpenSessions ==
    UNION {{<<i, n>> : n \in OpenSessions(tasks[i])} : i \in TaskIds}

NumUngated == (IF use.macro_news THEN 1 ELSE 0) + (IF use.vital_knowledge THEN 1 ELSE 0)

Thm_C31 ==
    /\ Cardinality({s \in AllOpenSessions : s[1] \in TickerIds}) <= max_concurrent
    /\ Cardinality({s \in AllOpenSessions : s[1] \in UngatedIds}) <= NumUngated
    /\ Cardinality(UngatedIds) = NumUngated
    /\ Cardinality(AllOpenSessions) <= max_concurrent + NumUngated
    /\ Cardinality(AllOpenSessions) <= max_concurrent + 2

\* As many sessions are open as the bound allows, one of them outside the
\* gate, while a process_ticker task waits for a slot
W_C31 ==
    /\ Cardinality(AllOpenSessions) = max_concurrent + NumUngated
    /\ NumUngated >= 1
    /\ Len(watchlist) > max_concurrent
    /\ \E i \in TickerIds : tasks[i].pos = "wait"

(***************************************************************************)
(* C32: after the join, results are the values of the process_ticker tasks *)
(* in watchlist order, macro_news_result is the value of the macro task    *)
(* when macro is enabled and None otherwise, and                           *)
(* vital_knowledge_batch_results is the value of the batch task when       *)
(* vital-knowledge is enabled and None otherwise, for every combination of *)
(* the two flags and every watchlist length.                               *)
(***************************************************************************)
\* The value returned by the task of the given kind, None if there is no such task
ValueOfKind(kind) ==
    IF \E i \in TaskIds : tasks[i].kind = kind
    THEN tasks[CHOOSE i \in TaskIds : tasks[i].kind = kind].ret
    ELSE NULL

Thm_C32 ==
    /\ (\E i \in TaskIds : tasks[i].kind = "macro") <=> use.macro_news
    /\ (\E i \in TaskIds : tasks[i].kind = "batch") <=> use.vital_knowledge
    /\ pc = "merge" =>
          /\ Len(results) = Len(watchlist)
          /\ \A i \in 1..Len(watchlist) :
                /\ tasks[i].kind = "ticker"
                /\ tasks[i].ticker = watchlist[i]
                /\ results[i] = tasks[i].ret
    /\ Joined =>
          /\ macro_news_result = ValueOfKind("macro")
          /\ vital_knowledge_batch_results = ValueOfKind("batch")
    /\ ~Joined =>
          /\ macro_news_result = NULL
          /\ vital_knowledge_batch_results = NULL

\* Both flags are on, the watchlist is not empty and the two tasks returned
\* different values, each of which is where it belongs
W_C32 ==
    /\ pc = "merge"
    /\ use.macro_news /\ use.vital_knowledge
    /\ Len(watchlist) >= 1
    /\ macro_news_result # NULL
    /\ vital_knowledge_batch_results # NULL
    /\ macro_news_result # vital_knowledge_batch_results
    /\ macro_news_result = tasks[Len(watchlist) + 1].ret
    /\ vital_knowledge_batch_results = tasks[Len(watchlist) + 2].ret

(***************************************************************************)
(* C33: the record process_ticker returns has vital_knowledge null whether *)
(* or not vital-knowledge is enabled, no wrapper call of a process_ticker  *)
(* task is a vital-knowledge fetch, and a record of results has a non-null *)
(* vital_knowledge only after the merge step, holding the dump of the batch *)
(* mapping's report for its ticker.                                        *)
(***************************************************************************)
Thm_C33 ==
    /\ \A i \in TickerIds :
          /\ tasks[i].pos = "done" => tasks[i].ret.vital_knowledge = NULL
          /\ \A n \in DOMAIN tasks[i].hist :
                SourceName[tasks[i].hist[n].src] \in
                    {"YahooQuote", "YahooAI", "MarketWatch", "GoogleNews"}
    /\ Joined =>
          \A i \in DOMAIN results :
              results[i].vital_knowledge # NULL =>
                  /\ Merged
                  /\ use.vital_knowledge
                  /\ Truthy(vital_knowledge_batch_results)
                  /\ results[i].ticker \in DOMAIN vital_knowledge_batch_results
                  /\ results[i].vital_knowledge =
                        model_dump(vital_knowledge_batch_results[results[i].ticker])

\* Vital-knowledge is enabled, process_ticker returned a record with a null
\* slot, and the merge step filled the slot from the batch mapping
W_C33 ==
    /\ use.vital_knowledge
    /\ Merged
    /\ \E i \in DOMAIN results :
          /\ tasks[i].ret.vital_knowledge = NULL
          /\ results[i].vital_knowledge # NULL

(***************************************************************************)
(* C34: a per-entity source whose flag is off has no wrapper call in a     *)
(* process_ticker task, a null payload in the task's record and no error   *)
(* message; with all four flags off the task makes no wrapper call at all  *)
(* and returns a record whose error is null.                               *)
(***************************************************************************)
DisabledSources == {k \in 1..NumSources : ~UseSource(k)}

MessagesOf(t) == {t.error_messages[n] : n \in DOMAIN t.error_messages}

Thm_C34 ==
    \A i \in TickerIds :
        /\ \A k \in DisabledSources :
              /\ \A n \in DOMAIN tasks[i].hist : tasks[i].hist[n].src # k
              /\ tasks[i].slots[k] = NULL
              /\ (SourceName[k] \o " failed") \notin MessagesOf(tasks[i])
              /\ tasks[i].pos = "done" => tasks[i].ret[SOURCES[k]] = NULL
        /\ DisabledSources = 1..NumSources =>
              /\ tasks[i].hist = <<>>
              /\ tasks[i].pos \in {"wait", "done"}
              /\ tasks[i].pos = "wait" => ~tasks[i].holds
              /\ tasks[i].pos = "done" =>
                    tasks[i].ret = [ticker |-> tasks[i].ticker, error |-> NULL,
                                    quote |-> NULL, analysis |-> NULL,
                                    marketwatch |-> NULL, googlenews |-> NULL,
                                    vital_knowledge |-> NULL]

\* A process_ticker task returned with one source disabled and another one
\* failed: the record has the message of the failed source only
W_C34 ==
    \E i \in TickerIds :
        /\ tasks[i].pos = "done"
        /\ DisabledSources \notin {{}, 1..NumSources}
        /\ tasks[i].ret.error # NULL
        /\ \E k \in 1..NumSources :
              UseSource(k) /\ tasks[i].ret[SOURCES[k]] # NULL

\* With every per-entity source disabled a task returned without a call
AllDisabledReturned ==
    /\ DisabledSources = 1..NumSources
    /\ \E i \in TickerIds : tasks[i].pos = "done" /\ tasks[i].releases = 1

(***************************************************************************)
(* C35: fetch_google_news_stories returns a GoogleNewsTopStories for every *)
(* outcome of its page operations and never raises.  The stories are those *)
(* of the articles visited, one per article in order, the story of a       *)
(* failing article with a null summary; no story is there when the search  *)
(* page failed; and there are never more than max_stories of them.         *)
(***************************************************************************)
\* The call of the connector under consideration
TheCall == tasks[1]

Ended(func) == TheCall.func = func /\ TheCall.pos # "called"

Thm_C35 ==
    Ended("fetch_google_news_stories") =>
        LET a == TheCall.args
            stories == TheCall.ret.fields.stories
        IN /\ TheCall.pos = "returned"
           /\ TheCall.ret.cls = "GoogleNewsTopStories"
           /\ TheCall.ret.fields.ticker = Upper(a.ticker)
           /\ Len(stories) <= a.max_stories
           /\ a.out.nav = "raise" => stories = <<>>
           /\ a.out.nav = "ok" =>
                 /\ Len(stories) = Min(Len(a.out.arts), a.max_stories)
                 /\ \A i \in 1..Len(stories) :
                       /\ stories[i].cls = "GoogleNewsStory"
                       /\ stories[i].fields.headline = i
                       /\ stories[i].fields.summary = NULL <=> a.out.arts[i] = "raise"
           /\ a.out.sum # "ok" => TheCall.ret.fields.news_summary = NULL

\* More articles than max_stories were found, the first visit failed, the
\* second worked, and the construction of the result raised at the end
W_C35 ==
    /\ Ended("fetch_google_news_stories")
    /\ TheCall.args.out.nav = "ok"
    /\ Len(TheCall.args.out.arts) > TheCall.args.max_stories
    /\ TheCall.args.out.sum = "invalid"
    /\ Len(TheCall.ret.fields.stories) = 2
    /\ TheCall.ret.fields.stories[1].fields.summary = NULL
    /\ TheCall.ret.fields.stories[2].fields.summary # NULL

(***************************************************************************)
(* C36: with the credentials set and the login done, the batch connector   *)
(* returns one report per ticker of its input, in the order of the input;  *)
(* if a step it runs raises, every report is empty, also those of tickers   *)
(* whose bullets had been extracted; otherwise every report has its dates.  *)
(***************************************************************************)
EmptyReport(r) ==
    /\ r.fields.headlines = <<>>
    /\ r.fields.report_dates = <<>>
    /\ r.fields.summary = NULL

\* The bullets the connector has for the ticker at position i when it
\* comes to process it
BulletCount(a, i) ==
    LET j == CHOOSE m \in 1..Len(a.tickers) :
                 /\ a.tickers[m] = a.tickers[i]
                 /\ \A q \in (m + 1)..Len(a.tickers) : a.tickers[q] # a.tickers[i]
    IN a.out.morning[j].n + a.out.close[j].n

\* The step that raises is one the connector gets to
BatchStepFailed(a) ==
    LET f == a.out.fail
    IN \/ f.step \in {"open_morning", "open_close", "morning", "close"}
       \/ f.step = "combine" /\ BulletCount(a, f.i) > 0
       \/ f.step = "summary" /\ BulletCount(a, f.i) > 0 /\ a.out.combine[f.i].n > 0

LoggedIn(func) == Ended(func) /\ has_creds /\ TheCall.args.out.login = "ok"

Thm_C36 ==
    LoggedIn("fetch_vital_knowledge_headlines_batch") =>
        LET a == TheCall.args
            reports == TheCall.ret
        IN /\ TheCall.pos = "returned"
           /\ DOMAIN reports = 1..Len(a.tickers)
           /\ \A i \in 1..Len(a.tickers) :
                 /\ reports[i].cls = "VitalKnowledgeReport"
                 /\ reports[i].fields.ticker = Upper(a.tickers[i])
           /\ BatchStepFailed(a) => \A i \in 1..Len(a.tickers) : EmptyReport(reports[i])
           /\ ~BatchStepFailed(a) =>
                 \A i \in 1..Len(a.tickers) :
                     /\ Len(reports[i].fields.report_dates) >= 2
                     /\ Len(reports[i].fields.headlines) =
                           IF BulletCount(a, i) > 0 THEN Min(a.out.combine[i].n, 5) ELSE 0

\* The summary of the second of two tickers raised after the first ticker's
\* bullets were extracted and sorted: both reports are empty
W_C36 ==
    /\ LoggedIn("fetch_vital_knowledge_headlines_batch")
    /\ Len(TheCall.args.tickers) = 2
    /\ TheCall.args.tickers[1] # TheCall.args.tickers[2]
    /\ TheCall.args.out.fail = Step("summary", 2)
    /\ BatchStepFailed(TheCall.args)
    /\ BulletCount(TheCall.args, 1) > 0
    /\ TheCall.args.out.combine[1].n > 0
    /\ \A i \in 1..2 : EmptyReport(TheCall.ret[i])

(***************************************************************************)
(* C37: with the credentials set and the login done, fetch_macro_news      *)
(* returns a MacroNewsSummary that has both morning_date and               *)
(* market_close_date when no step raised, and one with every field null    *)
(* and both bullet lists empty when a step of the morning part or of the   *)
(* market-close part raised, whatever the morning part had extracted.      *)
(***************************************************************************)
ListFields == {"morning_bullets", "market_close_bullets"}

EveryFieldEmpty(r) ==
    \A f \in DOMAIN r.fields :
        r.fields[f] = IF f \in ListFields THEN <<>> ELSE NULL

Thm_C37 ==
    LoggedIn("fetch_macro_news") =>
        LET out == TheCall.args.out
            r == TheCall.ret
        IN /\ TheCall.pos = "returned"
           /\ r.cls = "MacroNewsSummary"
           /\ DOMAIN r.fields =
                 {"morning_date", "morning_url", "morning_summary", "morning_bullets",
                  "market_close_date", "market_close_url", "market_close_summary",
                  "market_close_bullets"}
           /\ out.fail # NoStep => EveryFieldEmpty(r)
           /\ out.fail = NoStep =>
                 /\ r.fields.morning_date \in {Str(Today), Str("2025-11-19")}
                 /\ r.fields.market_close_date \in {Str(Today), Str("2025-11-19")}
                 /\ r.fields.morning_date = Str(Today) <=> out.morning_url = ListUrl
                 /\ r.fields.market_close_date = Str(Today) <=> out.close_url = ListUrl
           /\ \/ EveryFieldEmpty(r)
              \/ r.fields.morning_date # NULL /\ r.fields.market_close_date # NULL

\* The extraction from the market-close report raised after the morning
\* part had extracted a summary and bullets: the record is empty
W_C37 ==
    /\ LoggedIn("fetch_macro_news")
    /\ TheCall.args.out.fail = Step("close", 0)
    /\ TheCall.args.out.morning.k = "list"
    /\ TheCall.args.out.morning.n >= 1
    /\ EveryFieldEmpty(TheCall.ret)

(***************************************************************************)
(* C38: whatever the extractions return, a VitalKnowledgeReport returned   *)
(* by the batch connector or by the single-ticker connector has at most 5  *)
(* headlines, and a MacroNewsSummary returned by fetch_macro_news has at   *)
(* most 5 morning bullets and at most 5 market-close bullets.              *)
(***************************************************************************)
Returned(func) == TheCall.func = func /\ TheCall.pos = "returned"

Thm_C38 ==
    /\ Returned("fetch_vital_knowledge_headlines_batch") =>
          \A i \in DOMAIN TheCall.ret : Len(TheCall.ret[i].fields.headlines) <= 5
    /\ Returned("fetch_vital_knowledge_headlines") =>
          Len(TheCall.ret.fields.headlines) <= 5
    /\ Returned("fetch_macro_news") =>
          /\ Len(TheCall.ret.fields.morning_bullets) <= 5
          /\ Len(TheCall.ret.fields.market_close_bullets) <= 5

\* The sorting step of the batch connector returned more than 5 bullets and
\* the report has 5 headlines
W_C38 ==
    /\ Returned("fetch_vital_knowledge_headlines_batch")
    /\ \E i \in DOMAIN TheCall.ret :
          /\ TheCall.args.out.combine[i].n > 5
          /\ Len(TheCall.ret[i].fields.headlines) = 5

\* The same for the single-ticker connector
SingleCapped ==
    /\ Returned("fetch_vital_knowledge_headlines")
    /\ TheCall.args.out.combine.n > 5
    /\ Len(TheCall.ret.fields.headlines) = 5

\* Both extractions of fetch_macro_news returned more than 5 bullets
MacroCapped ==
    /\ Returned("fetch_macro_news")
    /\ TheCall.args.out.morning.n > 5
    /\ TheCall.args.out.close.n > 5
    /\ Len(TheCall.ret.fields.morning_bullets) = 5
    /\ Len(TheCall.ret.fields.market_close_bullets) = 5

(***************************************************************************)
(* C39: a run that starts with the files of the day in place leaves the    *)
(* report file as it was unless it ends with a quote for some entity, and  *)
(* leaves the macro snapshot file as it was when macro news is disabled.   *)
(***************************************************************************)
SomeQuote == \E i \in DOMAIN results : HasQuote(results[i])

Thm_C39 ==
    /\ ~use.macro_news => files["macro_news"] = EarlierFiles["macro_news"]
    /\ files["report"] # EarlierFiles["report"] => pc = "done" /\ SomeQuote
    /\ RunEnded /\ ~SomeQuote => files["report"] = EarlierFiles["report"]

\* The run ended with new snapshots for a watchlist in which no entity has
\* a quote, macro news disabled: the report and the macro snapshot are the
\* earlier ones
W_C39 ==
    /\ pc = "done"
    /\ Len(watchlist) >= 1
    /\ ~SomeQuote
    /\ ~use.macro_news
    /\ \A f \in {"yahoo", "marketwatch", "googlenews", "vital_knowledge"} :
          files[f] # EarlierFiles[f]
    /\ files["report"] = EarlierFiles["report"]
    /\ files["macro_news"] = EarlierFiles["macro_news"]

====
